---- MODULE Spec2Model ----
(***************************************************************************)
(* Candidate evaluation pipeline of the resume screener: rule-based        *)
(* pre-screening (utils/scoring.py auto_pre_screen_candidates), hybrid     *)
(* matching (utils/scoring.py match_candidates_with_jd) and resume parsing *)
(* with PII reconciliation (utils/preprocessing.py parse_resume_with_groq).*)
(*                                                                         *)
(* Conventions.  A Python str is a sequence of one-character strings.      *)
(* Years of experience are carried in tenths of a year, percentages and    *)
(* scores of the matcher in hundredths of a point.  A Python value that    *)
(* may be of several types is a record [t |-> type tag, v |-> payload].    *)
(***************************************************************************)
EXTENDS Integers, Sequences, FiniteSets, TLC

\* ------------------------------------------------------------------ bounds
\* Largest number of rows of the candidates table handed to pre-screening.
MaxCandidates == 2

\* ----------------------------------------------------------------- strings
\* str.lower() on the characters the model's strings use.
LowerChar(c) ==
    CASE c = "A" -> "a" [] c = "D" -> "d" [] c = "K" -> "k" [] c = "P" -> "p"
      [] c = "S" -> "s" [] c = "T" -> "t" [] c = "W" -> "w" [] OTHER -> c

Lower(s) == [i \in 1..Len(s) |-> LowerChar(s[i])]

\* Python's `needle in hay` for two str values.
Contains(hay, needle) ==
    \E i \in 0..(Len(hay) - Len(needle)) :
        \A k \in 1..Len(needle) : hay[i + k] = needle[k]

\* String literals of scoring.py lines 71-75.
lit_scikit_learn == <<"s", "c", "i", "k", "i", "t", "-", "l", "e", "a", "r", "n">>
lit_sklearn == <<"s", "k", "l", "e", "a", "r", "n">>
lit_scikit == <<"s", "c", "i", "k", "i", "t">>
lit_tensorflow == <<"t", "e", "n", "s", "o", "r", "f", "l", "o", "w">>
lit_tensor == <<"t", "e", "n", "s", "o", "r">>
lit_pytorch == <<"p", "y", "t", "o", "r", "c", "h">>
lit_torch == <<"t", "o", "r", "c", "h">>
lit_numpy == <<"n", "u", "m", "p", "y">>
lit_np == <<"n", "p">>
lit_pandas == <<"p", "a", "n", "d", "a", "s">>
lit_pd == <<"p", "d">>

\* Inputs: skill names a job description may require.
sk_AWS == <<"A", "W", "S">>
sk_Kubernetes == <<"K", "u", "b", "e", "r", "n", "e", "t", "e", "s">>
sk_Terraform == <<"T", "e", "r", "r", "a", "f", "o", "r", "m">>
sk_Docker == <<"D", "o", "c", "k", "e", "r">>
sk_Python == <<"P", "y", "t", "h", "o", "n">>

\* Inputs: tech_stack strings of candidate records.
ts_AWS_Docker == <<"A", "W", "S", ",", " ", "D", "o", "c", "k", "e", "r">>
ts_input == <<"i", "n", "p", "u", "t">>

TechStacks == {ts_AWS_Docker, lit_sklearn, ts_input}

\* Inputs: required_technical_skills lists of a requirements record.
SkillLists ==
    { <<>>,
      <<sk_AWS, sk_Kubernetes, sk_Terraform>>,
      <<sk_AWS, sk_Docker, sk_Terraform>>,
      <<sk_AWS, sk_Kubernetes, sk_Terraform, sk_Python>>,
      <<lit_scikit_learn>> }

\* ------------------------------------------------------------ Python values
Num(n) == [t |-> "num", v |-> n]
PyNone == [t |-> "none", v |-> 0]
PyAbsent == [t |-> "absent", v |-> 0]
PyStr(k) == [t |-> "str", v |-> k]

\* dict.get(key, default): the default only when the key is absent.
Get(val, default) == IF val.t = "absent" THEN default ELSE val

\* ============================================================ pre-screening
VARIABLES
    df,                 \* the candidates table passed to auto_pre_screen_candidates
    jd_requirements,    \* the requirements record passed to it
    filtered_df,        \* first component of its return value
    screening_summary,  \* second component of its return value
    decisions,          \* per row: the loop's candidate_score and what was counted
    scr_pc              \* "ready", "returned" or "raised"

\* experience_years values (tenths of a year) and one value float() rejects.
ExperienceValues == {Num(20), Num(24), Num(40), Num(50), Num(80), PyStr(0)}

Rows == [experience_years : ExperienceValues, tech_stack : TechStacks]

\* A DataFrame: its rows with their index labels, or None.
NoneDF == [none |-> TRUE, rows |-> <<>>]
DataFrame(rows) == [none |-> FALSE, rows |-> rows]
Labelled(rows) == [i \in 1..Len(rows) |-> [idx |-> i - 1, row |-> rows[i]]]

RowSeqs == UNION {[1..n -> Rows] : n \in 0..MaxCandidates}

\* minimum_experience_years: whole years, JSON null, or key absent.
MinExpValues == {Num(0), Num(3), Num(5), PyNone, PyAbsent}

NoneRequirements == [none |-> TRUE, minimum_experience_years |-> PyAbsent,
                     required_technical_skills |-> <<>>]

RequirementRecords ==
    [none : {FALSE}, minimum_experience_years : MinExpValues,
     required_technical_skills : SkillLists]

\* Python's `min_exp > 0`: TypeError unless min_exp is a number.
\* [raised, value]
GtZero(x) == IF x.t = "num" THEN [raised |-> FALSE, value |-> x.v > 0]
             ELSE [raised |-> TRUE, value |-> FALSE]

\* float(row.get('experience_years', 0)): ValueError/TypeError on a value
\* that is no number.
ToFloat(x) == IF x.t = "num" THEN [raised |-> FALSE, value |-> x.v]
              ELSE [raised |-> TRUE, value |-> 0]

\* Whole-year minima m for which the IEEE-754 double product m * 0.8 is one
\* ulp above the double nearest to the decimal 0.8 m (3 * 0.8 ==
\* 2.4000000000000004), so that a candidate exactly at the decimal threshold
\* compares below it.
ProductRoundsUp == {3, 6, 7, 12, 14, 17, 19}

\* candidate_exp >= exp_threshold with exp_threshold = min_exp * 0.8, in
\* doubles; exp in tenths of a year, min_exp in whole years.
GeThreshold(exp, min_exp) ==
    \/ exp > 8 * min_exp
    \/ exp = 8 * min_exp /\ min_exp \notin ProductRoundsUp

\* Lines 48-55 with the points of the two passing tiers exchanged.
ExperienceCheckSwapped(row, min_exp) ==
    LET f == ToFloat(row.experience_years)
        g == GtZero(min_exp)
    IN  IF f.raised \/ g.raised THEN [score |-> 0, counted |-> FALSE]
        ELSE IF g.value
             THEN IF f.value >= 10 * min_exp.v
                  THEN [score |-> 35, counted |-> TRUE]
                  ELSE IF GeThreshold(f.value, min_exp.v)
                       THEN [score |-> 50, counted |-> TRUE]
                       ELSE [score |-> 0, counted |-> FALSE]
             ELSE [score |-> 25, counted |-> FALSE]

\* Lines 43-61: the experience check. [score, counted]
ExperienceCheck(row, min_exp) ==
    LET f == ToFloat(row.experience_years)
        g == GtZero(min_exp)
    IN  IF f.raised \/ g.raised THEN [score |-> 0, counted |-> FALSE]
        ELSE IF g.value
             THEN IF f.value >= 10 * min_exp.v
                  THEN [score |-> 50, counted |-> TRUE]
                  ELSE IF GeThreshold(f.value, min_exp.v)
                       THEN [score |-> 35, counted |-> TRUE]
                       ELSE [score |-> 0, counted |-> FALSE]
             ELSE [score |-> 25, counted |-> FALSE]

\* Lines 69-75: whether one required skill is matched by the tech stack
\* (already lower-cased).
SkillMatched(skill, tech_stack) ==
    LET skill_lower == Lower(skill)
    IN  \/ Contains(tech_stack, skill_lower)
        \/ skill_lower = lit_scikit_learn
             /\ (Contains(tech_stack, lit_sklearn) \/ Contains(tech_stack, lit_scikit))
        \/ skill_lower = lit_tensorflow /\ Contains(tech_stack, lit_tensor)
        \/ skill_lower = lit_pytorch /\ Contains(tech_stack, lit_torch)
        \/ skill_lower = lit_numpy /\ Contains(tech_stack, lit_np)
        \/ skill_lower = lit_pandas /\ Contains(tech_stack, lit_pd)

\* Lines 65-76: matched_skills, in the order of required_skills.
MatchedSkills(required_skills, row) ==
    LET tech_stack == Lower(row.tech_stack)
    IN  SelectSeq(required_skills, LAMBDA skill : SkillMatched(skill, tech_stack))

\* Lines 78-93 with Python 2 integer division for the ratio.
SkillTierFloorDiv(matched, required) ==
    LET ratio == matched \div required
    IN  IF ratio >= 1 THEN [score |-> 50, counted |-> TRUE]
        ELSE IF matched > 0 THEN [score |-> 20, counted |-> TRUE]
        ELSE [score |-> 0, counted |-> FALSE]

\* Lines 78-93: the tier of skill_match_ratio = matched / required. The float
\* quotient of two small integers is the double nearest the exact ratio, and
\* 0.6 and 0.3 are the doubles nearest 3/5 and 3/10, so the comparisons are
\* those of the exact ratios.
SkillTier(matched, required) ==
    IF 10 * matched >= 6 * required THEN [score |-> 50, counted |-> TRUE]
    ELSE IF 10 * matched >= 3 * required THEN [score |-> 35, counted |-> TRUE]
    ELSE IF matched > 0 THEN [score |-> 20, counted |-> TRUE]
    ELSE [score |-> 0, counted |-> FALSE]

\* Lines 63-95: the skills check. [score, counted, matched]
SkillsCheck(row, required_skills) ==
    IF required_skills # <<>>
    THEN LET matched == Len(MatchedSkills(required_skills, row))
             tier == SkillTier(matched, Len(required_skills))
         IN  [score |-> tier.score, counted |-> tier.counted, matched |-> matched]
    ELSE [score |-> 25, counted |-> FALSE, matched |-> 0]

\* Line 97 with the gate moved to 50.
PassesGateAt50(candidate_score) == candidate_score >= 50

\* Line 97: the qualification gate.
PassesGate(candidate_score) == candidate_score >= 40

\* Lines 33, 39-98 for one row: candidate_score and what the loop counted.
Decision(row, req) ==
    LET min_exp == Get(req.minimum_experience_years, Num(0))
        e == ExperienceCheck(row, min_exp)
        s == SkillsCheck(row, req.required_technical_skills)
    IN  [exp_score |-> e.score, exp_counted |-> e.counted,
         skill_score |-> s.score, skill_counted |-> s.counted,
         matched |-> s.matched, candidate_score |-> e.score + s.score,
         passed |-> PassesGate(e.score + s.score)]

CountTrue(flags) == Cardinality({i \in DOMAIN flags : flags[i]})

\* Lines 102-113: the summary lines, each with the count it reports.
Summary(ds, min_exp, required_skills, n_passed, n_total) ==
    LET exp_line == IF min_exp.v > 0
                    THEN <<[kind |-> "experience",
                            count |-> CountTrue([i \in DOMAIN ds |-> ds[i].exp_counted]),
                            total |-> n_total]>>
                    ELSE <<>>
        skill_line == IF required_skills # <<>>
                      THEN <<[kind |-> "skills",
                              count |-> CountTrue([i \in DOMAIN ds |-> ds[i].skill_counted]),
                              total |-> n_total]>>
                      ELSE <<>>
        body == exp_line \o skill_line
    IN  IF body # <<>>
        THEN <<[kind |-> "header", count |-> 0, total |-> 0]>> \o body
             \o <<[kind |-> "passed", count |-> n_passed, total |-> n_total]>>
        ELSE <<>>

\* Line 30 returning a new, empty table instead of its argument.
EarlyReturnEmptyFrame(table) == DataFrame(<<>>)

\* Line 30: return df, [] hands back the argument itself.
EarlyReturn(table) == table

\* Lines 97-98 with filtered_candidates.insert(0, row) for append(row).
KeptRowsPrepended(labelled, ds) ==
    LET kept == SelectSeq(labelled, LAMBDA r : ds[r.idx + 1].passed)
    IN  [k \in 1..Len(kept) |-> kept[Len(kept) + 1 - k]]

\* Lines 97-100: the rows that pass the gate, appended in table order, each
\* with its index label.
KeptRows(labelled, ds) == SelectSeq(labelled, LAMBDA r : ds[r.idx + 1].passed)

\* Lines 24-115: one call of auto_pre_screen_candidates(df, jd_requirements).
auto_pre_screen_candidates ==
    /\ scr_pc = "ready"
    /\ IF df.none \/ df.rows = <<>> \/ jd_requirements.none
       THEN \* lines 29-30: return df, []
            /\ filtered_df' = EarlyReturn(df)
            /\ screening_summary' = <<>>
            /\ decisions' = <<>>
            /\ scr_pc' = "returned"
       ELSE LET min_exp == Get(jd_requirements.minimum_experience_years, Num(0))
                required_skills == jd_requirements.required_technical_skills
                labelled == Labelled(df.rows)
                ds == [i \in DOMAIN df.rows |-> Decision(df.rows[i], jd_requirements)]
                kept == KeptRows(labelled, ds)
            IN  /\ decisions' = ds
                /\ IF GtZero(min_exp).raised
                   THEN \* line 103: TypeError out of the function
                        /\ scr_pc' = "raised"
                        /\ UNCHANGED <<filtered_df, screening_summary>>
                   ELSE /\ scr_pc' = "returned"
                        /\ filtered_df' = DataFrame(kept)
                        /\ screening_summary' =
                               Summary(ds, min_exp, required_skills, Len(kept), Len(df.rows))
    /\ UNCHANGED <<df, jd_requirements>>

scr_vars == <<df, jd_requirements, filtered_df, screening_summary, decisions, scr_pc>>

ScreenInit ==
    /\ df \in {NoneDF} \cup {DataFrame(rs) : rs \in RowSeqs}
    /\ jd_requirements \in {NoneRequirements} \cup RequirementRecords
    /\ filtered_df = NoneDF
    /\ screening_summary = <<>>
    /\ decisions = <<>>
    /\ scr_pc = "ready"

\* Pre-screening not in use.
ScreenIdle ==
    /\ df = NoneDF
    /\ jd_requirements = NoneRequirements
    /\ filtered_df = NoneDF
    /\ screening_summary = <<>>
    /\ decisions = <<>>
    /\ scr_pc = "idle"

\* ===================================================== the skill match alone
VARIABLES
    mk_skill,   \* one entry of required_skills
    mk_stack,   \* a row's tech_stack
    mk_result,  \* whether the loop of lines 68-76 appended the skill
    mk_pc       \* "ready" or "done"

mk_vars == <<mk_skill, mk_stack, mk_result, mk_pc>>

\* Both sides of every pair of lines 71-75, and a skill outside them.
PairNames ==
    {lit_scikit_learn, lit_sklearn, lit_scikit, lit_tensorflow, lit_tensor,
     lit_pytorch, lit_torch, lit_numpy, lit_np, lit_pandas, lit_pd}

SkillInit ==
    /\ mk_skill \in PairNames \cup {sk_AWS}
    /\ mk_stack \in PairNames \cup {ts_AWS_Docker, ts_input}
    /\ mk_result = FALSE
    /\ mk_pc = "ready"

SkillIdle ==
    /\ mk_skill = <<>>
    /\ mk_stack = <<>>
    /\ mk_result = FALSE
    /\ mk_pc = "idle"

\* Lines 65-76 for a one-skill requirement: is the skill appended?
match_skill ==
    /\ mk_pc = "ready"
    /\ mk_result' = (MatchedSkills(<<mk_skill>>, [tech_stack |-> mk_stack]) # <<>>)
    /\ mk_pc' = "done"
    /\ UNCHANGED <<mk_skill, mk_stack>>

\* ================================================================= matching
VARIABLES
    candidates_df,    \* the pre-screened table passed to match_candidates_with_jd
    resume_texts,     \* st.session_state.resume_texts: name -> raw resume text
    job_description,  \* the JD text passed to it
    top_n,            \* the requested number of results
    llm_reply,        \* what the LLM call of the last run produced
    llm_requests,     \* the requests issued to the LLM, oldest first
    st_errors,        \* the messages shown with st.error, oldest first
    match_results,    \* the return value of the last run
    match_pc          \* "ready" or "returned"

match_vars == <<candidates_df, resume_texts, job_description, top_n, llm_reply,
                llm_requests, st_errors, match_results, match_pc>>

\* Largest number of rows of the pre-screened table.
MaxPool == 2
\* Largest number of entries of the JSON array the LLM returns.
MaxReply == 2

\* Characters \w matches, among those the model's texts use.
WordChars ==
    {"a", "b", "c", "d", "e", "f", "g", "h", "i", "j", "k", "l", "m", "n", "o",
     "p", "q", "r", "s", "t", "u", "v", "w", "x", "y", "z", "A", "D", "K", "P",
     "S", "T", "W", "0", "1", "2", "3", "4", "5", "6", "7", "8", "9", "_"}

RECURSIVE Scan(_, _, _, _)
\* The tokens of s from position i on, `run` being the word characters read
\* since the last non-word character.
Scan(s, i, run, out) ==
    LET closed == IF Len(run) >= 2 THEN Append(out, run) ELSE out
    IN  IF i > Len(s) THEN closed
        ELSE IF s[i] \in WordChars THEN Scan(s, i + 1, Append(run, s[i]), out)
        ELSE Scan(s, i + 1, <<>>, closed)

\* TfidfVectorizer's analyzer: lower-case, then token_pattern \b\w\w+\b, i.e.
\* the maximal runs of word characters that are at least two long, in order.
Tokenize(s) == Scan(Lower(s), 1, <<>>, <<>>)

\* Term frequencies of a tokenized document: token -> number of occurrences.
TermCounts(doc) ==
    [w \in {doc[i] : i \in DOMAIN doc} |-> Cardinality({i \in DOMAIN doc : doc[i] = w})]

RECURSIVE SumOver(_, _)
\* Sum of f[x] over the finite set S.
SumOver(S, f) ==
    IF S = {} THEN 0
    ELSE LET x == CHOOSE y \in S : TRUE IN f[x] + SumOver(S \ {x}, f)

RECURSIVE ISqrtIn(_, _, _)
\* The integer square root of x, searched by bisection in lo..hi.
ISqrtIn(x, lo, hi) ==
    IF lo >= hi THEN lo
    ELSE LET mid == (lo + hi + 1) \div 2
         IN  IF mid * mid <= x THEN ISqrtIn(x, mid, hi) ELSE ISqrtIn(x, lo, mid - 1)

\* round(a / b) for a >= 0, b > 0, ties to even as Python's round.
RoundDiv(a, b) ==
    LET q == a \div b
        r == a % b
    IN  IF 2 * r > b \/ (2 * r = b /\ q % 2 = 1) THEN q + 1 ELSE q

\* Squared L2 norm of a document's tf-idf row, times 40, from its term
\* frequencies tf and the other document's vocabulary. With two documents and
\* smooth_idf, a term of both has idf 1 and a term of one has idf
\* 1 + ln(3/2) = 1.40546..., whose square 1.97533 is taken as 79/40.
NormSq40(tf, other_vocabulary) ==
    LET sq == [w \in DOMAIN tf |-> tf[w] * tf[w]]
    IN  40 * SumOver(DOMAIN tf \cap other_vocabulary, sq)
        + 79 * SumOver(DOMAIN tf \ other_vocabulary, sq)

\* Line 19 on the dot product of the raw term counts, without normalisation.
RawDotScore(resume_text, jd_text) ==
    LET tf1 == TermCounts(Tokenize(resume_text))
        tf2 == TermCounts(Tokenize(jd_text))
        shared == DOMAIN tf1 \cap DOMAIN tf2
    IN  10000 * SumOver(shared, [w \in shared |-> tf1[w] * tf2[w]])

\* Lines 13-21: calculate_semantic_score, in hundredths of a point.
\* max_features=500 never cuts the vocabularies of the model's texts.
calculate_semantic_score(resume_text, jd_text) ==
    LET tf1 == TermCounts(Tokenize(resume_text))
        tf2 == TermCounts(Tokenize(jd_text))
        shared == DOMAIN tf1 \cap DOMAIN tf2
        dot == SumOver(shared, [w \in shared |-> tf1[w] * tf2[w]])
        n1 == NormSq40(tf1, DOMAIN tf2)
        n2 == NormSq40(tf2, DOMAIN tf1)
    IN  IF DOMAIN tf1 \cup DOMAIN tf2 = {}
        THEN 0      \* fit_transform raises "empty vocabulary": except, return 0
        ELSE IF n1 = 0 \/ n2 = 0 \/ dot = 0
        THEN 0      \* a zero row stays zero under normalisation: cosine 0.0
        ELSE RoundDiv(40000000 * dot, ISqrtIn(10000 * n1 * n2, 0, 46340))

\* Inputs: resume texts and the job description.
tx_python_aws == <<"P", "y", "t", "h", "o", "n", " ", "A", "W", "S">>
tx_java_sql == <<"j", "a", "v", "a", " ", "s", "q", "l", " ", "j", "a", "v", "a">>
tx_no_token == <<"c", " ", "+", "+">>
jd_python == <<"p", "y", "t", "h", "o", "n", " ", "a", "w", "s", " ", "d", "o", "c", "k", "e", "r">>

ResumeTexts == {tx_python_aws, tx_java_sql, tx_no_token}
StoredNames == {"alice", "bob"}

\* The rows of a pre-screened table, in table order.
Roster ==
    << [name |-> "alice", email |-> "alice@mail.example"],
       [name |-> "bob", email |-> "bob@mail.example"],
       [name |-> "carol", email |-> "carol@mail.example"] >>

\* match_percentage values of a reply entry: 60, 90, the JSON string "88%",
\* or no such key.
MatchPercentages == {Num(6000), Num(9000), PyStr(1), PyAbsent}

\* One element of the JSON array: an object with the keys the code reads, or
\* a value that is no object.
NonObject == [dict |-> FALSE, name |-> "", match_percentage |-> PyAbsent, rank |-> 0]

ReplyEntries ==
    [dict : {TRUE}, name : StoredNames, match_percentage : MatchPercentages,
     rank : {9}] \cup {NonObject}

\* What the LLM call yields: an exception out of create_groq_completion, a
\* text without '[', a text whose '[' ... ']' slice json.loads rejects, or a
\* text whose slice is a JSON array.
NoReply == [kind |-> "none", entries |-> <<>>]
Replies ==
    {[kind |-> k, entries |-> <<>>] : k \in {"transport_error", "no_bracket", "bad_json"}}
    \cup {[kind |-> "array", entries |-> es] :
            es \in UNION {[1..n -> ReplyEntries] : n \in 0..MaxReply}}

Min(a, b) == IF a <= b THEN a ELSE b

\* Line 199 with the two weights exchanged.
BlendSwapped(llm_score, semantic_score) == RoundDiv(3 * llm_score + 7 * semantic_score, 10)

\* Line 199: round(llm_score * 0.7 + semantic_score * 0.3, 2), both in
\* hundredths. An exact decimal tie goes to the even neighbour; in doubles
\* the sum is not exactly the tie and lands on one of the two neighbours.
Blend(llm_score, semantic_score) == RoundDiv(7 * llm_score + 3 * semantic_score, 10)

\* Lines 193-202 for one element of results. [raised, entry]
ScoreEntry(result, texts, jd) ==
    LET resume_text == IF result.name \in DOMAIN texts THEN texts[result.name] ELSE <<>>
        llm_score == Get(result.match_percentage, Num(0))
        semantic_score == calculate_semantic_score(resume_text, jd)
        scored(sem, final) ==
            [name |-> result.name, match_percentage |-> result.match_percentage,
             rank |-> result.rank, semantic_score |-> sem, final_score |-> final]
    IN  IF ~result.dict
        THEN [raised |-> TRUE, entry |-> scored(0, PyNone)]    \* .get on a non-dict
        ELSE IF resume_text # <<>>
        THEN IF llm_score.t # "num"
             THEN [raised |-> TRUE, entry |-> scored(0, PyNone)]   \* str * float
             ELSE [raised |-> FALSE,
                   entry |-> scored(semantic_score, Num(Blend(llm_score.v, semantic_score)))]
        ELSE [raised |-> FALSE, entry |-> scored(0, llm_score)]

\* Python's a < b on two sort keys of one type (numbers, or strings in
\* lexicographic order, which v indexes).
PyLess(a, b) == a.v < b.v

\* A sort of two or more keys compares keys of every type present: TypeError
\* unless all are numbers or all are strings.
SortRaises(entries) ==
    /\ Len(entries) >= 2
    /\ \E i, j \in DOMAIN entries :
           \/ entries[i].final_score.t # entries[j].final_score.t
           \/ entries[i].final_score.t \notin {"num", "str"}

RECURSIVE InsertAfterGE(_, _)
\* e placed behind every element whose key is not less than e's.
InsertAfterGE(sorted, e) ==
    IF sorted = <<>> THEN <<e>>
    ELSE IF PyLess(Head(sorted).final_score, e.final_score)
         THEN <<e>> \o sorted
         ELSE <<Head(sorted)>> \o InsertAfterGE(Tail(sorted), e)

RECURSIVE SortAscending(_)
\* Line 204 without reverse=True.
SortAscending(entries) ==
    IF entries = <<>> THEN <<>>
    ELSE LET rest == SortAscending(Tail(entries))
             e == Head(entries)
             lt == SelectSeq(rest, LAMBDA x : PyLess(x.final_score, e.final_score))
             ge == SelectSeq(rest, LAMBDA x : ~PyLess(x.final_score, e.final_score))
         IN  lt \o <<e>> \o ge

RECURSIVE SortDescending(_, _)
\* Line 204: list.sort(key=final_score, reverse=True), which is stable: equal
\* keys keep their order. `done` is the sorted prefix.
SortDescending(done, entries) ==
    IF entries = <<>> THEN done
    ELSE SortDescending(InsertAfterGE(done, Head(entries)), Tail(entries))

\* Line 204 as an ascending sort read backwards: equal keys change places.
SortAscendingReversed(entries) ==
    LET asc == SortAscending(entries)
    IN  [k \in 1..Len(asc) |-> asc[Len(asc) + 1 - k]]

\* Line 204 on the scored entries.
SortResults(entries) == SortDescending(<<>>, entries)

\* Lines 205-206: ranks 1.. in list order.
AssignRanks(entries) == [i \in DOMAIN entries |-> [entries[i] EXCEPT !.rank = i]]

\* Lines 129-139, 141-169: what the prompt interpolates.
MatchRequest(df_rows, jd, actual_top_n) ==
    [caller |-> "match_candidates_with_jd",
     actual_top_n |-> actual_top_n,
     job_description |-> jd,
     candidates_summary |-> [i \in DOMAIN df_rows |->
         [name |-> df_rows[i].name, email |-> df_rows[i].email]]]

\* Lines 189-208 without the two slices [:actual_top_n].
ProcessArrayUnsliced(entries, texts, jd, actual_top_n) ==
    LET scored == [i \in DOMAIN entries |-> ScoreEntry(entries[i], texts, jd)]
        scored_entries == [i \in DOMAIN entries |-> scored[i].entry]
    IN  IF \E i \in DOMAIN scored : scored[i].raised
        THEN [raised |-> TRUE, results |-> <<>>]
        ELSE IF SortRaises(scored_entries)
        THEN [raised |-> TRUE, results |-> <<>>]
        ELSE [raised |-> FALSE, results |-> AssignRanks(SortResults(scored_entries))]

\* Lines 189-208 on the parsed array. [raised, results]
ProcessArray(entries, texts, jd, actual_top_n) ==
    LET results == SubSeq(entries, 1, Min(actual_top_n, Len(entries)))
        scored == [i \in DOMAIN results |-> ScoreEntry(results[i], texts, jd)]
        scored_entries == [i \in DOMAIN results |-> scored[i].entry]
    IN  IF \E i \in DOMAIN scored : scored[i].raised
        THEN [raised |-> TRUE, results |-> <<>>]
        ELSE IF SortRaises(scored_entries)
        THEN [raised |-> TRUE, results |-> <<>>]
        ELSE LET ranked == AssignRanks(SortResults(scored_entries))
             IN  [raised |-> FALSE,
                  results |-> SubSeq(ranked, 1, Min(actual_top_n, Len(ranked)))]

\* Lines 118-213: one call of match_candidates_with_jd.
match_candidates_with_jd ==
    /\ match_pc = "ready"
    /\ match_pc' = "returned"
    /\ UNCHANGED <<candidates_df, resume_texts, job_description, top_n>>
    /\ IF candidates_df.rows = <<>>
       THEN \* lines 123-124
            /\ match_results' = <<>>
            /\ UNCHANGED <<llm_reply, llm_requests, st_errors>>
       ELSE LET actual_top_n == Min(top_n, Len(candidates_df.rows))
            IN  \E reply \in Replies :
                /\ llm_reply' = reply
                /\ llm_requests' = Append(llm_requests,
                       MatchRequest(candidates_df.rows, job_description, actual_top_n))
                /\ CASE reply.kind \in {"transport_error", "bad_json"} ->
                            \* lines 211-213
                            /\ match_results' = <<>>
                            /\ st_errors' = Append(st_errors, "Matching error")
                     [] reply.kind = "no_bracket" ->
                            \* line 209
                            /\ match_results' = <<>>
                            /\ UNCHANGED st_errors
                     [] OTHER ->
                            LET out == ProcessArray(reply.entries, resume_texts,
                                                    job_description, actual_top_n)
                            IN  /\ match_results' = out.results
                                /\ st_errors' = IF out.raised
                                                THEN Append(st_errors, "Matching error")
                                                ELSE st_errors

TextMaps == UNION {[S -> ResumeTexts] : S \in SUBSET StoredNames}

MatchInit ==
    /\ candidates_df \in {DataFrame(SubSeq(Roster, 1, n)) : n \in 0..MaxPool}
    /\ resume_texts \in TextMaps
    /\ job_description = jd_python
    /\ top_n \in 1..(MaxPool + 1)
    /\ llm_reply = NoReply
    /\ llm_requests = <<>>
    /\ st_errors = <<>>
    /\ match_results = <<>>
    /\ match_pc = "ready"

MatchIdle ==
    /\ candidates_df = NoneDF
    /\ resume_texts = <<>>
    /\ job_description = <<>>
    /\ top_n = 0
    /\ llm_reply = NoReply
    /\ llm_requests = <<>>
    /\ st_errors = <<>>
    /\ match_results = <<>>
    /\ match_pc = "idle"

\* ============================================================ resume parsing
VARIABLES
    resume_text,        \* the text passed to parse_resume_with_groq
    mask_pii_enabled,   \* its mask_pii_enabled argument
    upload_date,        \* its upload_date argument
    parse_reply,        \* what the LLM call does: raises or returns a text
    parse_requests,     \* the user prompts sent to the LLM
    parse_errors,       \* the calls of st.error
    parsed_data,        \* the value the function returns
    parse_pc            \* "idle", "ready" or "returned"

parse_vars ==
    <<resume_text, mask_pii_enabled, upload_date, parse_reply, parse_requests,
      parse_errors, parsed_data, parse_pc>>

\* A JSON / Python value of the record: a str, None, or a key that is absent.
StrVal(s) == [t |-> "str", s |-> s]
NoneVal == [t |-> "none", s |-> <<>>]
AbsentVal == [t |-> "absent", s |-> <<>>]

\* Python truthiness of such a value: a non-empty str.
Truthy(val) == val.t = "str" /\ val.s # <<>>

Digits == {"0", "1", "2", "3", "4", "5", "6", "7", "8", "9"}

AsciiLetters ==
    {"a", "b", "c", "d", "e", "f", "g", "h", "i", "j", "k", "l", "m", "n", "o",
     "p", "q", "r", "s", "t", "u", "v", "w", "x", "y", "z", "A", "B", "C", "D",
     "E", "F", "G", "H", "I", "J", "K", "L", "M", "N", "O", "P", "Q", "R", "S",
     "T", "U", "V", "W", "X", "Y", "Z"}

\* The character classes of email_pattern (line 27) and phone_pattern (line 32).
EmailLocalChars == AsciiLetters \cup Digits \cup {".", "_", "%", "+", "-"}
EmailDomainChars == AsciiLetters \cup Digits \cup {".", "-"}
EmailTldChars == AsciiLetters \cup {"|"}
PhoneSeparators == {"-", ".", " "}

IsWord(s, i) == i \in 1..Len(s) /\ s[i] \in AsciiLetters \cup Digits \cup {"_"}

\* \b between positions i - 1 and i of s.
WordBoundary(s, i) == IsWord(s, i - 1) # IsWord(s, i)

AllIn(s, from, to, class) == \A k \in from..to : s[k] \in class

Slice(s, from, to) == [k \in 1..(to - from + 1) |-> s[from + k - 1]]

MaxOf(S) == CHOOSE x \in S : \A y \in S : y <= x
MinOf(S) == CHOOSE x \in S : \A y \in S : x <= y

\* The positions where a match of email_pattern that starts at i can end,
\* with the end of its domain part: local part up to the '@' at position at,
\* domain up to d, '.', two or more TLD characters up to e, then \b.
EmailEnds(s, i) ==
    IF ~WordBoundary(s, i) THEN {}
    ELSE UNION {UNION {{<<d, e>> :
                        e \in {x \in (d + 3)..Len(s) :
                                /\ AllIn(s, d + 2, x, EmailTldChars)
                                /\ WordBoundary(s, x + 1)}} :
                    d \in {x \in (at + 1)..(Len(s) - 1) :
                            /\ AllIn(s, at + 1, x, EmailDomainChars)
                            /\ s[x + 1] = "."}} :
            at \in {x \in (i + 1)..Len(s) :
                        s[x] = "@" /\ AllIn(s, i, x - 1, EmailLocalChars)}}

\* The end of the match at i that the greedy quantifiers find first: the
\* longest domain, then the longest TLD.
EmailEnd(s, i) ==
    LET d == MaxOf({de[1] : de \in EmailEnds(s, i)})
    IN  MaxOf({de[2] : de \in {x \in EmailEnds(s, i) : x[1] = d}})

\* Lines 28-30: email_matches[0] of re.findall, or None.
ExtractEmail(s) ==
    LET starts == {i \in 1..Len(s) : EmailEnds(s, i) # {}}
    IN  IF starts = {} THEN NoneVal
        ELSE LET i == MinOf(starts) IN StrVal(Slice(s, i, EmailEnd(s, i)))

\* Position after one optional character of class at position i.
SkipOpt(s, i, class) == IF i <= Len(s) /\ s[i] \in class THEN i + 1 ELSE i

\* The part of phone_pattern after its group matches at position q:
\* \(?\d{3}\)?[-.\s]?\d{3}[-.\s]?\d{4}.  Every optional character is
\* followed by a class that excludes it, so it is taken whenever present.
PhoneRest(s, q) ==
    LET a == SkipOpt(s, q, {"("})
        b == SkipOpt(s, a + 3, {")"})
        c == SkipOpt(s, b, PhoneSeparators)
        d == SkipOpt(s, c + 3, PhoneSeparators)
    IN  /\ a + 2 <= Len(s) /\ AllIn(s, a, a + 2, Digits)
        /\ c + 2 <= Len(s) /\ AllIn(s, c, c + 2, Digits)
        /\ d + 3 <= Len(s) /\ AllIn(s, d, d + 3, Digits)

\* The position after the group (\+?\d{1,3}[-.\s]?) started at i with k digits.
PhoneGroupEnd(s, i, k) == SkipOpt(s, SkipOpt(s, i, {"+"}) + k, PhoneSeparators)

\* The group matches at i with k digits and the rest of the pattern follows.
PhoneGroup(s, i, k) ==
    LET p == SkipOpt(s, i, {"+"})
    IN  /\ p + k - 1 <= Len(s)
        /\ AllIn(s, p, p + k - 1, Digits)
        /\ PhoneRest(s, PhoneGroupEnd(s, i, k))

\* Lines 33-35: phone_matches[0] of re.findall, or None.  The pattern has one
\* capture group, so findall returns the text of that group for each match:
\* the prefix matched by (\+?\d{1,3}[-.\s]?), or '' when the match is made
\* without it.  The group is tried first, with the most digits first.
ExtractPhone(s) ==
    LET matches(i) == PhoneRest(s, i) \/ \E k \in 1..3 : PhoneGroup(s, i, k)
        starts == {i \in 1..Len(s) : matches(i)}
    IN  IF starts = {} THEN NoneVal
        ELSE LET i == MinOf(starts)
                 ks == {k \in 1..3 : PhoneGroup(s, i, k)}
             IN  IF ks = {} THEN StrVal(<<>>)
                 ELSE StrVal(Slice(s, i, PhoneGroupEnd(s, i, MaxOf(ks)) - 1))

\* The placeholders of mask_pii and the 'null' of line 131.
lit_EMAIL_MASKED == <<"[", "E", "M", "A", "I", "L", "_", "M", "A", "S", "K", "E", "D", "]">>
lit_PHONE_MASKED == <<"[", "P", "H", "O", "N", "E", "_", "M", "A", "S", "K", "E", "D", "]">>
lit_null == <<"n", "u", "l", "l">>

\* Resume texts: no contact data; an email; an '@' word without a TLD; a
\* ten-digit phone; a phone with country code; an email and eleven digits.
rt_plain == <<"J", "a", "v", "a", " ", "d", "e", "v">>
rt_email == <<"m", "@", "x", ".", "i", "o">>
rt_no_tld == <<"m", "@", "x", " ", "d", "e", "v">>
rt_phone == <<"5", "5", "5", "-", "1", "2", "3", "-", "4", "5", "6", "7">>
rt_phone_cc == <<"+", "1", " ", "5", "5", "5", "-", "1", "2", "3", "-", "4", "5", "6", "7">>
rt_both ==
    <<"m", ".", "k", "@", "x", ".", "c", "o", ".", "u", "k", " ",
      "1", "5", "5", "5", "1", "2", "3", "4", "5", "6", "7">>

ParseTexts == {rt_plain, rt_email, rt_no_tld, rt_phone, rt_phone_cc, rt_both}

\* The 'email' and 'phone' members of the object the LLM returns.
ReplyEmails ==
    {AbsentVal, NoneVal, StrVal(<<>>), StrVal(lit_null), StrVal(lit_EMAIL_MASKED),
     StrVal(rt_email)}
ReplyPhones ==
    {AbsentVal, NoneVal, StrVal(<<>>), StrVal(lit_null), StrVal(lit_PHONE_MASKED),
     StrVal(rt_phone)}

dt_upload == <<"2", "0", "2", "4">>
dt_now == <<"2", "0", "2", "5">>
fn_resume == <<"c", "v", ".", "p", "d", "f">>
UploadDates == {NoneVal, StrVal(<<>>), StrVal(dt_upload)}

\* The prompt of lines 39-101: a literal without placeholders (its first line).
ParsePrompt == <<"R", "O", "L", "E", ":">>

NoParseReply == [kind |-> "none", email |-> AbsentVal, phone |-> AbsentVal]

\* Outcomes of lines 105-122: the call raises; the reply has no '{' before a
\* '}'; json.loads raises; or the reply holds a JSON object.
ParseReplies ==
    {[kind |-> k, email |-> AbsentVal, phone |-> AbsentVal] :
        k \in {"transport_error", "no_braces", "bad_json"}}
    \cup {[kind |-> "object", email |-> e, phone |-> p] :
            e \in ReplyEmails, p \in ReplyPhones}

NoRecord ==
    [none |-> TRUE, email |-> AbsentVal, phone |-> AbsentVal,
     filename |-> <<>>, submission_date |-> <<>>]

\* Lines 126-129 applied whether or not masking is on.
ReconcileLocalFirst(mask, extracted, from_llm) ==
    IF Truthy(extracted) THEN extracted ELSE from_llm

\* Lines 125-134: the email (or phone) of the record.
Reconcile(mask, extracted, from_llm) ==
    IF mask
    THEN IF Truthy(extracted) THEN extracted ELSE from_llm
    ELSE IF ~Truthy(from_llm) \/ from_llm = StrVal(lit_null)
         THEN IF Truthy(extracted) THEN extracted ELSE NoneVal
         ELSE from_llm

parse_resume_with_groq ==
    /\ parse_pc = "ready"
    /\ parse_pc' = "returned"
    /\ parse_requests' = Append(parse_requests, ParsePrompt)
    /\ \E reply \in ParseReplies :
        /\ parse_reply' = reply
        /\ IF reply.kind \in {"transport_error", "bad_json"}
           THEN /\ parse_errors' = Append(parse_errors, fn_resume)
                /\ parsed_data' = NoRecord
           ELSE /\ parse_errors' = parse_errors
                /\ IF reply.kind = "no_braces"
                   THEN parsed_data' = NoRecord
                   ELSE parsed_data' =
                        [none |-> FALSE,
                         email |-> Reconcile(mask_pii_enabled,
                                             ExtractEmail(resume_text), reply.email),
                         phone |-> Reconcile(mask_pii_enabled,
                                             ExtractPhone(resume_text), reply.phone),
                         filename |-> fn_resume,
                         submission_date |->
                            IF Truthy(upload_date) THEN upload_date.s ELSE dt_now]
    /\ UNCHANGED <<resume_text, mask_pii_enabled, upload_date>>

ParseInit ==
    /\ resume_text \in ParseTexts
    /\ mask_pii_enabled \in BOOLEAN
    /\ upload_date \in UploadDates
    /\ parse_reply = NoParseReply
    /\ parse_requests = <<>>
    /\ parse_errors = <<>>
    /\ parsed_data = NoRecord
    /\ parse_pc = "ready"

ParseIdle ==
    /\ resume_text = <<>>
    /\ mask_pii_enabled = FALSE
    /\ upload_date = NoneVal
    /\ parse_reply = NoParseReply
    /\ parse_requests = <<>>
    /\ parse_errors = <<>>
    /\ parsed_data = NoRecord
    /\ parse_pc = "idle"

\* ============================================================ PII redaction
VARIABLES
    mask_text,          \* the text passed to mask_pii
    mask_first,         \* mask_pii(text)
    mask_result,        \* the value of the latest mask_pii call
    mask_pc             \* "idle", "ready", "masked" or "remasked"

mask_vars == <<mask_text, mask_first, mask_result, mask_pc>>

\* Largest number of pieces a text handed to mask_pii is made of.
MaxPieces == 3

\* The last position of the run of \S characters that holds position i.
WordEnd(s, i) == MinOf({k \in i..Len(s) : k = Len(s) \/ s[k + 1] = " "})

RECURSIVE SubEmail(_, _, _)
\* Line 14, re.sub(r'\S+@\S+', '[EMAIL_MASKED]', text), from the start i of a
\* run of \S characters or a whitespace character on.  A match needs an '@'
\* with a \S character on both sides; both \S+ are greedy, so the leftmost
\* match is the whole run.
SubEmail(s, i, out) ==
    IF i > Len(s) THEN out
    ELSE IF s[i] = " " THEN SubEmail(s, i + 1, Append(out, s[i]))
    ELSE LET b == WordEnd(s, i)
         IN  IF \E p \in (i + 1)..(b - 1) : s[p] = "@"
             THEN SubEmail(s, b + 1, out \o lit_EMAIL_MASKED)
             ELSE SubEmail(s, b + 1, out \o Slice(s, i, b))

\* The lengths n of [\d -]{8,12} with which \+?\d[\d -]{8,12}\d matches at i.
PhoneRunLengths(s, i) ==
    LET p == SkipOpt(s, i, {"+"})
    IN  {n \in 8..12 :
            /\ p + n + 1 <= Len(s)
            /\ s[p] \in Digits
            /\ AllIn(s, p + 1, p + n, Digits \cup {" ", "-"})
            /\ s[p + n + 1] \in Digits}

RECURSIVE SubPhoneZeros(_, _, _)
\* Line 15 with a placeholder that has the form of a phone number itself.
SubPhoneZeros(s, i, out) ==
    IF i > Len(s) THEN out
    ELSE IF PhoneRunLengths(s, i) = {}
         THEN SubPhoneZeros(s, i + 1, Append(out, s[i]))
         ELSE SubPhoneZeros(s, SkipOpt(s, i, {"+"}) + MaxOf(PhoneRunLengths(s, i)) + 2,
                            out \o <<"0", "0", "0", "0", "0", "0", "0", "0", "0", "0">>)

RECURSIVE SubPhone(_, _, _)
\* Line 15, re.sub(r'\+?\d[\d -]{8,12}\d', '[PHONE_MASKED]', text), from
\* position i on: the leftmost match, the longest run first, then on from
\* the end of the match.
SubPhone(s, i, out) ==
    IF i > Len(s) THEN out
    ELSE IF PhoneRunLengths(s, i) = {}
         THEN SubPhone(s, i + 1, Append(out, s[i]))
         ELSE SubPhone(s, SkipOpt(s, i, {"+"}) + MaxOf(PhoneRunLengths(s, i)) + 2,
                       out \o lit_PHONE_MASKED)

\* mask_pii, lines 12-16.
mask_pii(text) == SubPhone(SubEmail(text, 1, <<>>), 1, <<>>)

\* The pieces the texts are made of: a letter, '@', a space, a dash, '+', a
\* parenthesised area code, and runs of four and five digits.
MaskPieces ==
    {<<"a">>, <<"@">>, <<" ">>, <<"-">>, <<"+">>, <<"(", "5", "5", ")">>,
     <<"1", "2", "3", "4">>, <<"5", "6", "7", "8", "9">>}

RECURSIVE Concat(_)
Concat(pieces) == IF pieces = <<>> THEN <<>> ELSE Head(pieces) \o Concat(Tail(pieces))

MaskTexts ==
    {Concat(ps) : ps \in UNION {[1..n -> MaskPieces] : n \in 0..MaxPieces}}

\* One call of mask_pii: on the text, then on its own result.
mask_pii_call ==
    \/ /\ mask_pc = "ready"
       /\ mask_first' = mask_pii(mask_text)
       /\ mask_result' = mask_pii(mask_text)
       /\ mask_pc' = "masked"
       /\ UNCHANGED mask_text
    \/ /\ mask_pc = "masked"
       /\ mask_result' = mask_pii(mask_result)
       /\ mask_pc' = "remasked"
       /\ UNCHANGED <<mask_text, mask_first>>

MaskInit ==
    /\ mask_text \in MaskTexts
    /\ mask_first = <<>>
    /\ mask_result = <<>>
    /\ mask_pc = "ready"

MaskIdle ==
    /\ mask_text = <<>>
    /\ mask_first = <<>>
    /\ mask_result = <<>>
    /\ mask_pc = "idle"

\* ============================================== job-description requirements
VARIABLES
    jd_text,            \* the job_description passed to extract_jd_requirements
    jd_reply,           \* what the LLM call does: raises or returns a text
    jd_requests,        \* the user prompts sent to the LLM
    jd_errors,          \* the calls of st.error
    jd_result,          \* the value the function returns
    jd_pc               \* "idle", "ready", "returned" or "raised"

jd_vars == <<jd_text, jd_reply, jd_requests, jd_errors, jd_result, jd_pc>>

\* A parsed JSON value: a number or a string with its text s, or an object
\* with its members m, a sequence of [k, v] in insertion order.
JsonNone == [t |-> "none", s |-> <<>>, m |-> <<>>]
JsonScalar(type, text) == [t |-> type, s |-> text, m |-> <<>>]
JsonObject(members) == [t |-> "obj", s |-> <<>>, m |-> members]

\* The outcome of a parsing step: the value read and the position after it.
JsonFail == [ok |-> FALSE, val |-> JsonNone, next |-> 0]
JsonRead(val, next) == [ok |-> TRUE, val |-> val, next |-> next]

\* str.find(c): the 0-based index of the first c, or -1.
Find(s, c) ==
    LET at == {i \in 1..Len(s) : s[i] = c} IN IF at = {} THEN -1 ELSE MinOf(at) - 1

\* str.rfind(c): the 0-based index of the last c, or -1.
RFind(s, c) ==
    LET at == {i \in 1..Len(s) : s[i] = c} IN IF at = {} THEN -1 ELSE MaxOf(at) - 1

RECURSIVE SkipWs(_, _)
\* The first position from i on that holds no JSON whitespace.
SkipWs(s, i) == IF i <= Len(s) /\ s[i] = " " THEN SkipWs(s, i + 1) ELSE i

\* The last position of the run of digits that starts at i.
DigitsEnd(s, i) ==
    MaxOf({e \in i..Len(s) : AllIn(s, i, e, Digits)})

\* dict[k] = v: a repeated key keeps its place and takes the last value.
DictSet(members, k, v) ==
    IF \E i \in DOMAIN members : members[i].k = k
    THEN [i \in DOMAIN members |->
            IF members[i].k = k THEN [k |-> k, v |-> v] ELSE members[i]]
    ELSE Append(members, [k |-> k, v |-> v])

RECURSIVE JsonValue(_, _)
RECURSIVE JsonMembers(_, _, _)

\* json.loads on the grammar the model's replies use: a value at position i
\* is a run of digits, a string without escapes, or an object.
JsonValue(s, i) ==
    IF i > Len(s) THEN JsonFail
    ELSE IF s[i] \in Digits
         THEN JsonRead(JsonScalar("num", Slice(s, i, DigitsEnd(s, i))), DigitsEnd(s, i) + 1)
    ELSE IF s[i] = "\""
         THEN LET close == {e \in (i + 1)..Len(s) : s[e] = "\""}
              IN  IF close = {} THEN JsonFail
                  ELSE JsonRead(JsonScalar("str", Slice(s, i + 1, MinOf(close) - 1)),
                                MinOf(close) + 1)
    ELSE IF s[i] = "{"
         THEN LET j == SkipWs(s, i + 1)
              IN  IF j <= Len(s) /\ s[j] = "}"
                  THEN JsonRead(JsonObject(<<>>), j + 1)
                  ELSE JsonMembers(s, j, <<>>)
    ELSE JsonFail

\* The members of an object from the key at position i on, up to its '}'.
JsonMembers(s, i, members) ==
    LET key == IF i <= Len(s) /\ s[i] = "\"" THEN JsonValue(s, i) ELSE JsonFail
        colon == SkipWs(s, key.next)
        val == IF key.ok /\ colon <= Len(s) /\ s[colon] = ":"
               THEN JsonValue(s, SkipWs(s, colon + 1)) ELSE JsonFail
        after == SkipWs(s, val.next)
        now == DictSet(members, key.val.s, val.val)
    IN  IF ~val.ok \/ after > Len(s) THEN JsonFail
        ELSE IF s[after] = "}" THEN JsonRead(JsonObject(now), after + 1)
        ELSE IF s[after] = "," THEN JsonMembers(s, SkipWs(s, after + 1), now)
        ELSE JsonFail

\* json.loads(s): [raised, value]; data after the value raises too.
JsonLoads(s) ==
    LET r == JsonValue(s, SkipWs(s, 1))
    IN  IF r.ok /\ SkipWs(s, r.next) > Len(s)
        THEN [raised |-> FALSE, value |-> r.val]
        ELSE [raised |-> TRUE, value |-> JsonNone]

\* The extraction with the first '}' taken for the end of the object.
ExtractJsonFirstClose(response) ==
    LET json_start == Find(response, "{")
        json_end == Find(response, "}") + 1
    IN  IF json_start # -1 /\ json_end > json_start
        THEN LET loaded == JsonLoads(Slice(response, json_start + 1, json_end))
             IN  [found |-> TRUE, raised |-> loaded.raised, value |-> loaded.value]
        ELSE [found |-> FALSE, raised |-> FALSE, value |-> JsonNone]

\* Lines 219-225 (and 118-123): the object between the first '{' and the last
\* '}' of the response. [found, raised, value]
ExtractJson(response) ==
    LET json_start == Find(response, "{")
        json_end == RFind(response, "}") + 1
    IN  IF json_start # -1 /\ json_end > json_start
        THEN LET loaded == JsonLoads(Slice(response, json_start + 1, json_end))
             IN  [found |-> TRUE, raised |-> loaded.raised, value |-> loaded.value]
        ELSE [found |-> FALSE, raised |-> FALSE, value |-> JsonNone]

\* JSON objects of a reply: {}, {"a":7}, {"a": {"a":7}, "b":7} and {"a":"}"}.
js_empty == <<"{", "}">>
js_flat == <<"{", "\"", "a", "\"", ":", "7", "}">>
js_nested ==
    <<"{", "\"", "a", "\"", ":", " ", "{", "\"", "a", "\"", ":", "7", "}", ",", " ",
      "\"", "b", "\"", ":", "7", "}">>
js_brace_in_string == <<"{", "\"", "a", "\"", ":", "\"", "}", "\"", "}">>

JsonObjectTexts == {js_empty, js_flat, js_nested, js_brace_in_string}

\* Prose around the object: none, 'Sure: ', ' ok', and prose with braces.
pr_sure == <<"S", "u", "r", "e", ":", " ">>
pr_ok == <<" ", "o", "k">>
pr_open == <<"{", " ">>
pr_close == <<" ", "}">>
pr_key_open == <<"{", "\"", "b", "\"", ":">>
pr_set == <<"{", "a", "}", " ">>

ProseBefore == {<<>>, pr_sure, pr_ok, pr_open, pr_close, pr_key_open, pr_set}
ProseAfter == {<<>>, pr_sure, pr_ok, pr_open, pr_close}

\* Reply texts without an object: no brace, '}' before '{', no '}'.
tx_refusal == <<"n", "o">>
tx_reversed == <<"}", " ", "{">>
tx_unclosed == <<"{", "\"", "a", "\"", ":", "7">>

NoJdReply == [raises |-> FALSE, before |-> <<>>, object |-> <<>>, after |-> <<>>]

\* Outcomes of lines 206-217: the call raises, or returns a text made of
\* prose, at most one JSON object, and prose.
JdReplies ==
    {[raises |-> TRUE, before |-> <<>>, object |-> <<>>, after |-> <<>>]}
    \cup {[raises |-> FALSE, before |-> b, object |-> <<>>, after |-> <<>>] :
            b \in {tx_refusal, tx_reversed, tx_unclosed}}
    \cup {[raises |-> FALSE, before |-> b, object |-> o, after |-> a] :
            b \in ProseBefore, o \in JsonObjectTexts, a \in ProseAfter}

\* chat_completion.choices[0].message.content of a reply.
ResponseText(reply) == reply.before \o reply.object \o reply.after

\* The prompt of lines 150-204: an f-string none of whose braces names a
\* variable; where the text belongs it reads ['job_description'].
JdPrompt ==
    <<"[", "'", "j", "o", "b", "_", "d", "e", "s", "c", "r", "i", "p", "t", "i",
      "o", "n", "'", "]">>

jd_java == <<"j", "a", "v", "a", " ", "s", "q", "l">>
JdTexts == {jd_python, jd_java, <<>>}

\* The function with the except clause of lines 227-229 removed.
extract_jd_requirements_unguarded ==
    /\ jd_pc = "ready"
    /\ jd_requests' = Append(jd_requests, JdPrompt)
    /\ \E reply \in JdReplies :
        LET extracted == ExtractJson(ResponseText(reply))
        IN  /\ jd_reply' = reply
            /\ jd_pc' = IF reply.raises \/ extracted.raised THEN "raised" ELSE "returned"
            /\ jd_result' = extracted.value
    /\ UNCHANGED <<jd_text, jd_errors>>

extract_jd_requirements ==
    /\ jd_pc = "ready"
    /\ jd_pc' = "returned"
    /\ jd_requests' = Append(jd_requests, JdPrompt)
    /\ \E reply \in JdReplies :
        LET extracted == ExtractJson(ResponseText(reply))
        IN  /\ jd_reply' = reply
            /\ IF reply.raises \/ extracted.raised
               THEN /\ jd_errors' = Append(jd_errors, "Error extracting JD requirements")
                    /\ jd_result' = JsonNone
               ELSE /\ jd_errors' = jd_errors
                    /\ jd_result' = extracted.value
    /\ UNCHANGED jd_text

JdInit ==
    /\ jd_text \in JdTexts
    /\ jd_reply = NoJdReply
    /\ jd_requests = <<>>
    /\ jd_errors = <<>>
    /\ jd_result = JsonNone
    /\ jd_pc = "ready"

JdIdle ==
    /\ jd_text = <<>>
    /\ jd_reply = NoJdReply
    /\ jd_requests = <<>>
    /\ jd_errors = <<>>
    /\ jd_result = JsonNone
    /\ jd_pc = "idle"

\* ============================================================ lexical score
VARIABLES
    sem_resume,         \* the resume_text passed to calculate_semantic_score
    sem_jd,             \* its jd_text
    sem_score,          \* the value it returns, in hundredths of a point
    sem_pc              \* "idle", "ready" or "returned"

sem_vars == <<sem_resume, sem_jd, sem_score, sem_pc>>

\* Largest number of words of a text handed to calculate_semantic_score.
MaxWords == 2

\* Words of the texts: two tokens, and two words the token pattern rejects.
SemWords == {<<"p", "y">>, <<"A", "W", "S">>, <<"c">>, <<"+", "+">>}

RECURSIVE Join(_)
\* ' '.join(words)
Join(words) ==
    IF words = <<>> THEN <<>>
    ELSE IF Len(words) = 1 THEN Head(words)
    ELSE Head(words) \o <<" ">> \o Join(Tail(words))

SemTexts == {Join(ws) : ws \in UNION {[1..n -> SemWords] : n \in 0..MaxWords}}

\* One call of calculate_semantic_score; the bare except of line 20 leaves no
\* way out of the function but a return.
semantic_score_call ==
    /\ sem_pc = "ready"
    /\ sem_score' = calculate_semantic_score(sem_resume, sem_jd)
    /\ sem_pc' = "returned"
    /\ UNCHANGED <<sem_resume, sem_jd>>

SemInit ==
    /\ sem_resume \in SemTexts
    /\ sem_jd \in SemTexts
    /\ sem_score = 0
    /\ sem_pc = "ready"

SemIdle ==
    /\ sem_resume = <<>>
    /\ sem_jd = <<>>
    /\ sem_score = 0
    /\ sem_pc = "idle"

\* ============================================================= upload batch
VARIABLES
    up_source,          \* "manual" (file uploader) or "sharepoint" (download)
    up_files,           \* uploaded_files / downloaded_files, in upload order
    up_status,          \* the files status.text announced, by position
    parsed_resumes,     \* st.session_state.parsed_resumes
    resume_metadata,    \* st.session_state.resume_metadata
    up_pc               \* "idle", "ready", "done" or "raised"

up_vars == <<up_source, up_files, up_status, parsed_resumes, resume_metadata, up_pc>>

\* Largest number of files of one batch.
MaxFiles == 3

\* What parse_resume_with_groq returns for a file: None, or a record whose
\* name is a string, or a record whose name is a JSON object.
ParseOutcomes == {"none", "alice", "bob", "{}"}

\* A dict or list is no dictionary key: resume_texts[name] = text raises.
Unhashable(name) == name = "{}"

\* A file: the text extract_text_from_file finds in it ('' when extraction
\* fails) and the outcome of parsing that text.
BatchFiles ==
    {[text |-> <<>>, parsed |-> "none"]}
    \cup {[text |-> t, parsed |-> p] : t \in {tx_python_aws, tx_java_sql}, p \in ParseOutcomes}

Batches == UNION {[1..n -> BatchFiles] : n \in 1..MaxFiles}

\* The record of the file at position i: line 136 stamps the file name.
ParsedRecord(files, i) == [name |-> files[i].parsed, filename |-> i]

\* d.setdefault(k, v): a key already present keeps its value.
SetDefault(d, k, v) == [x \in DOMAIN d \cup {k} |-> IF x \in DOMAIN d THEN d[x] ELSE v]

\* d[k] = v on a dict.
SetItem(d, k, v) == [x \in DOMAIN d \cup {k} |-> IF x = k THEN v ELSE d[x]]

\* The session before the batch: empty, or holding an earlier batch.
EarlierRecord == [name |-> "carol", filename |-> 0]

RECURSIVE BatchLoop(_, _, _, _)
\* Lines 172-188 (manual) and 92-115 (SharePoint) from the file at position
\* i on.  The SharePoint loop hands extract_text_from_file a dict, whose
\* first statement reads uploaded_file.name: AttributeError.
BatchLoop(source, files, i, acc) ==
    IF i > Len(files) THEN acc
    ELSE LET seen == [acc EXCEPT !.status = Append(@, i)]
             name == files[i].parsed
             kept == [seen EXCEPT !.parsed_resumes = Append(@, ParsedRecord(files, i))]
         IN  IF source = "sharepoint" THEN [seen EXCEPT !.raised = TRUE]
             ELSE IF files[i].text = <<>> \/ name = "none"
                  THEN BatchLoop(source, files, i + 1, seen)
             ELSE IF Unhashable(name) THEN [kept EXCEPT !.raised = TRUE]
             ELSE BatchLoop(source, files, i + 1,
                    [kept EXCEPT
                        !.resume_texts = SetItem(@, name, files[i].text),
                        !.resume_metadata = SetItem(@, name, i)])

\* The handler of "Parse All Resumes" / "Download All Resumes": reset the
\* session lists, run the loop, and replace candidates_df when any record
\* was parsed.
parse_all_resumes ==
    /\ up_pc = "ready"
    /\ LET out == BatchLoop(up_source, up_files, 1,
                    [parsed_resumes |-> <<>>, resume_texts |-> <<>>,
                     resume_metadata |-> <<>>, status |-> <<>>, raised |-> FALSE])
       IN  /\ up_status' = out.status
           /\ parsed_resumes' = out.parsed_resumes
           /\ resume_texts' = out.resume_texts
           /\ resume_metadata' = out.resume_metadata
           /\ up_pc' = IF out.raised THEN "raised" ELSE "done"
           /\ candidates_df' =
                IF ~out.raised /\ out.parsed_resumes # <<>>
                THEN DataFrame(out.parsed_resumes) ELSE candidates_df
    /\ UNCHANGED <<up_source, up_files>>
    /\ UNCHANGED <<job_description, top_n, llm_reply, llm_requests, st_errors,
                   match_results, match_pc>>

UploadInit ==
    /\ up_source \in {"manual", "sharepoint"}
    /\ up_files \in Batches
    /\ up_status = <<>>
    /\ up_pc = "ready"
    /\ \/ /\ parsed_resumes = <<>>
          /\ candidates_df = NoneDF
          /\ resume_texts = <<>>
          /\ resume_metadata = <<>>
       \/ /\ parsed_resumes = <<EarlierRecord>>
          /\ candidates_df = DataFrame(<<EarlierRecord>>)
          /\ resume_texts = SetItem(<<>>, "carol", tx_java_sql)
          /\ resume_metadata = SetItem(<<>>, "carol", 0)
    /\ job_description = <<>>
    /\ top_n = 0
    /\ llm_reply = NoReply
    /\ llm_requests = <<>>
    /\ st_errors = <<>>
    /\ match_results = <<>>
    /\ match_pc = "idle"

UploadIdle ==
    /\ up_source = "manual"
    /\ up_files = <<>>
    /\ up_status = <<>>
    /\ parsed_resumes = <<>>
    /\ resume_metadata = <<>>
    /\ up_pc = "idle"

\* ================================================= LLM call with a fallback
\* utils/groq_client.py of src/ does not define create_groq_completion, which
\* scoring.py and preprocessing.py import from it; it is modelled from the
\* error taxonomy of the specification (LLMTransportFailure).
VARIABLES
    fallback_client,    \* TRUE when a fallback client is configured
    gq_calls,           \* the calls made so far, each with its attempts and result
    gq_pc               \* "idle" or "ready"

gq_vars == <<fallback_client, gq_calls, gq_pc>>

\* Largest number of LLM calls of one session.
MaxCalls == 2

\* What a client answers: a completion, an authentication error, a
\* rate-limit error, or another error.
ClientOutcomes == {"ok", "auth_error", "rate_limit", "api_error"}

TransportFailures == {"auth_error", "rate_limit"}

\* A call that asks the fallback client after any failure of the primary one,
\* configured or not.
CompletionAlwaysRetrying(has_fallback, primary, fallback) ==
    IF primary = "ok"
    THEN [primary |-> primary, fallback |-> "none", attempts |-> <<"primary">>,
          result |-> "ok"]
    ELSE [primary |-> primary, fallback |-> fallback,
          attempts |-> <<"primary", "fallback">>,
          result |-> IF fallback = "ok" THEN "ok" ELSE "raised"]

\* One call: the primary client is asked; after an authentication or
\* rate-limit failure the fallback client, when configured, is asked once;
\* any failure left over is raised to the caller.
Completion(has_fallback, primary, fallback) ==
    IF primary = "ok"
    THEN [primary |-> primary, fallback |-> "none", attempts |-> <<"primary">>,
          result |-> "ok"]
    ELSE IF primary \in TransportFailures /\ has_fallback
    THEN [primary |-> primary, fallback |-> fallback,
          attempts |-> <<"primary", "fallback">>,
          result |-> IF fallback = "ok" THEN "ok" ELSE "raised"]
    ELSE [primary |-> primary, fallback |-> "none", attempts |-> <<"primary">>,
          result |-> "raised"]

create_groq_completion ==
    /\ gq_pc = "ready"
    /\ Len(gq_calls) < MaxCalls
    /\ \E primary \in ClientOutcomes, fallback \in ClientOutcomes :
        gq_calls' = Append(gq_calls, Completion(fallback_client, primary, fallback))
    /\ UNCHANGED <<fallback_client, gq_pc>>

GroqInit ==
    /\ fallback_client \in BOOLEAN
    /\ gq_calls = <<>>
    /\ gq_pc = "ready"

GroqIdle ==
    /\ fallback_client = FALSE
    /\ gq_calls = <<>>
    /\ gq_pc = "idle"

\* ============================================================= matching tab
VARIABLES
    matched_results,    \* st.session_state.matched_results
    tab_results,        \* what the handler's match_candidates_with_jd returned
    tab_runs,           \* presses of "Analyze JD & Match Candidates" so far
    tab_pc              \* "idle", "ready", or how the last press ended

tab_vars == <<matched_results, tab_results, tab_runs, tab_pc>>

\* Largest number of presses of the button in a session, and of files of
\* the batch uploaded in that session.
MaxRuns == 1
MaxSessionFiles == 1

\* Largest number of elements of an LLM reply in a session.
MaxSessionReply == 1

\* Line 376: top_n = st.session_state.get('top_n', 5).
DefaultTopN == 5

\* st.session_state.matched_results: None (app.py:217) or a ranking.
NoRanking == [none |-> TRUE, results |-> <<>>]
Ranking(results) == [none |-> FALSE, results |-> results]

\* A ranking stored by an earlier press.
EarlierRanking ==
    Ranking(<<[name |-> "carol", match_percentage |-> Num(9000), rank |-> 1,
               semantic_score |-> 0, final_score |-> Num(9000)]>>)

\* What extract_jd_requirements hands the handler: None, a record whose
\* minimum is 3 years, or a record whose minimum is JSON null.
TabRequirements ==
    {NoneRequirements,
     [none |-> FALSE, minimum_experience_years |-> Num(3),
      required_technical_skills |-> <<sk_AWS, sk_Docker, sk_Terraform>>],
     [none |-> FALSE, minimum_experience_years |-> PyNone,
      required_technical_skills |-> <<sk_AWS, sk_Docker, sk_Terraform>>]}

\* The screening fields of a record of candidates_df: one that passes a
\* minimum of 3 years and one that does not.
TabRows ==
    {[experience_years |-> Num(50), tech_stack |-> ts_AWS_Docker],
     [experience_years |-> Num(20), tech_stack |-> lit_sklearn]}

\* Lines 438-444: df_to_screen, the rows of candidates_df the date filter
\* lets through, each with its screening fields.
TablesToScreen(n) == {DataFrame(rs) : rs \in UNION {[1..k -> TabRows] : k \in 0..n}}

\* Line 446: auto_pre_screen_candidates on a table and a requirements record
\* that are not None. [raised, filtered_df]
PreScreen(table, req) ==
    IF table.rows = <<>> THEN [raised |-> FALSE, filtered_df |-> EarlyReturn(table)]
    ELSE LET ds == [i \in DOMAIN table.rows |-> Decision(table.rows[i], req)]
         IN  [raised |-> GtZero(Get(req.minimum_experience_years, Num(0))).raised,
              filtered_df |-> DataFrame(KeptRows(Labelled(table.rows), ds))]

\* Line 520: what match_candidates_with_jd returns for a pool of pool_size
\* candidates and an LLM reply.
MatchReturn(pool_size, texts, jd, n, reply) ==
    IF pool_size = 0 \/ reply.kind # "array" THEN <<>>
    ELSE ProcessArray(reply.entries, texts, jd, Min(n, pool_size)).results

\* Lines 521-522 without the test `if results:`.
StoreResultsAlways(stored, results) == Ranking(results)

\* Lines 521-522: the ranking is stored only when it is not empty.
StoreResults(stored, results) == IF results # <<>> THEN Ranking(results) ELSE stored

\* The LLM replies of a session: as Replies, with at most MaxSessionReply
\* elements, each a non-object or an object with a numeric match_percentage.
SessionReplies ==
    {r \in Replies :
        /\ Len(r.entries) <= MaxSessionReply
        /\ \A k \in DOMAIN r.entries :
             r.entries[k].dict => r.entries[k].match_percentage.t = "num"}

\* Lines 416-525: one press of "Analyze JD & Match Candidates".
analyze_jd_and_match ==
    /\ tab_pc # "idle"
    /\ tab_runs < MaxRuns
    /\ ~candidates_df.none                                        \* line 381
    /\ tab_runs' = tab_runs + 1
    /\ \E req \in TabRequirements :
         IF req.none
         THEN \* line 420: nothing was extracted
              /\ tab_pc' = "no_requirements"
              /\ tab_results' = <<>>
              /\ UNCHANGED matched_results
         ELSE \E table \in TablesToScreen(Len(candidates_df.rows)) :
              LET screened == PreScreen(table, req)
              IN  IF screened.raised
                  THEN \* TypeError out of line 446
                       /\ tab_pc' = "screen_raised"
                       /\ tab_results' = <<>>
                       /\ UNCHANGED matched_results
                  ELSE IF screened.filtered_df.rows = <<>>
                  THEN \* lines 524-525
                       /\ tab_pc' = "none_passed"
                       /\ tab_results' = <<>>
                       /\ UNCHANGED matched_results
                  ELSE \E reply \in SessionReplies :
                       LET results == MatchReturn(Len(screened.filtered_df.rows),
                                          resume_texts, jd_python, DefaultTopN, reply)
                       IN  /\ tab_pc' = IF results = <<>> THEN "no_ranking" ELSE "ranked"
                           /\ tab_results' = results
                           /\ matched_results' = StoreResults(matched_results, results)

TabInit ==
    /\ matched_results \in {NoRanking, EarlierRanking}
    /\ tab_results = <<>>
    /\ tab_runs = 0
    /\ tab_pc = "ready"

TabIdle ==
    /\ matched_results = NoRanking
    /\ tab_results = <<>>
    /\ tab_runs = 0
    /\ tab_pc = "idle"

\* ========================================================== specifications
vars ==
    <<scr_vars,
      mk_vars,
      match_vars,
      parse_vars,
      mask_vars,
      jd_vars,
      sem_vars,
      up_vars,
      gq_vars,
      tab_vars>>

ScreenNext ==
    /\ auto_pre_screen_candidates
    /\ UNCHANGED <<mk_vars, match_vars, parse_vars, mask_vars, jd_vars, sem_vars, up_vars, gq_vars, tab_vars>>

ScreenSpecInit ==
    /\ ScreenInit
    /\ SkillIdle /\ MatchIdle /\ ParseIdle /\ MaskIdle /\ JdIdle /\ SemIdle /\ UploadIdle /\ GroqIdle /\ TabIdle

SpecScreen == ScreenSpecInit /\ [][ScreenNext]_vars

SkillNext ==
    /\ match_skill
    /\ UNCHANGED <<scr_vars, match_vars, parse_vars, mask_vars, jd_vars, sem_vars, up_vars, gq_vars, tab_vars>>

SkillSpecInit ==
    /\ SkillInit
    /\ ScreenIdle /\ MatchIdle /\ ParseIdle /\ MaskIdle /\ JdIdle /\ SemIdle /\ UploadIdle /\ GroqIdle /\ TabIdle

SpecSkill == SkillSpecInit /\ [][SkillNext]_vars

MatchNext ==
    /\ match_candidates_with_jd
    /\ UNCHANGED <<scr_vars, mk_vars, parse_vars, mask_vars, jd_vars, sem_vars, up_vars, gq_vars, tab_vars>>

MatchSpecInit ==
    /\ MatchInit
    /\ ScreenIdle /\ SkillIdle /\ ParseIdle /\ MaskIdle /\ JdIdle /\ SemIdle /\ UploadIdle /\ GroqIdle /\ TabIdle

SpecMatch == MatchSpecInit /\ [][MatchNext]_vars

ParseNext ==
    /\ parse_resume_with_groq
    /\ UNCHANGED <<scr_vars, mk_vars, match_vars, mask_vars, jd_vars, sem_vars, up_vars, gq_vars, tab_vars>>

ParseSpecInit ==
    /\ ParseInit
    /\ ScreenIdle /\ SkillIdle /\ MatchIdle /\ MaskIdle /\ JdIdle /\ SemIdle /\ UploadIdle /\ GroqIdle /\ TabIdle

SpecParse == ParseSpecInit /\ [][ParseNext]_vars

MaskNext ==
    /\ mask_pii_call
    /\ UNCHANGED <<scr_vars, mk_vars, match_vars, parse_vars, jd_vars, sem_vars, up_vars, gq_vars, tab_vars>>

MaskSpecInit ==
    /\ MaskInit
    /\ ScreenIdle /\ SkillIdle /\ MatchIdle /\ ParseIdle /\ JdIdle /\ SemIdle /\ UploadIdle /\ GroqIdle /\ TabIdle

SpecMask == MaskSpecInit /\ [][MaskNext]_vars

JdNext ==
    /\ extract_jd_requirements
    /\ UNCHANGED <<scr_vars, mk_vars, match_vars, parse_vars, mask_vars, sem_vars, up_vars, gq_vars, tab_vars>>

JdSpecInit ==
    /\ JdInit
    /\ ScreenIdle /\ SkillIdle /\ MatchIdle /\ ParseIdle /\ MaskIdle /\ SemIdle /\ UploadIdle /\ GroqIdle /\ TabIdle

SpecJd == JdSpecInit /\ [][JdNext]_vars

SemNext ==
    /\ semantic_score_call
    /\ UNCHANGED <<scr_vars, mk_vars, match_vars, parse_vars, mask_vars, jd_vars, up_vars, gq_vars, tab_vars>>

SemSpecInit ==
    /\ SemInit
    /\ ScreenIdle /\ SkillIdle /\ MatchIdle /\ ParseIdle /\ MaskIdle /\ JdIdle /\ UploadIdle /\ GroqIdle /\ TabIdle

SpecSem == SemSpecInit /\ [][SemNext]_vars

\* The batch writes candidates_df and resume_texts of the session.
UploadNext ==
    /\ parse_all_resumes
    /\ UNCHANGED <<scr_vars, mk_vars, parse_vars, mask_vars, jd_vars, sem_vars, gq_vars, tab_vars>>

UploadSpecInit ==
    /\ UploadInit
    /\ ScreenIdle /\ SkillIdle /\ ParseIdle /\ MaskIdle /\ JdIdle /\ SemIdle /\ GroqIdle /\ TabIdle

SpecUpload == UploadSpecInit /\ [][UploadNext]_vars

GroqNext ==
    /\ create_groq_completion
    /\ UNCHANGED <<scr_vars, mk_vars, match_vars, parse_vars, mask_vars, jd_vars, sem_vars, up_vars, tab_vars>>

GroqSpecInit ==
    /\ GroqInit
    /\ ScreenIdle /\ SkillIdle /\ MatchIdle /\ ParseIdle /\ MaskIdle /\ JdIdle /\ SemIdle /\ UploadIdle /\ TabIdle

SpecGroq == GroqSpecInit /\ [][GroqNext]_vars

TabNext ==
    /\ analyze_jd_and_match
    /\ UNCHANGED <<scr_vars, mk_vars, match_vars, parse_vars, mask_vars, jd_vars, sem_vars, up_vars, gq_vars>>

\* Either extractor is called: parse_resume_with_groq or extract_jd_requirements.
ExtractNext ==
    \/ ParseNext
    \/ JdNext

ExtractSpecInit ==
    /\ ScreenIdle /\ SkillIdle /\ MatchIdle /\ MaskIdle /\ SemIdle /\ UploadIdle
    /\ GroqIdle /\ TabIdle
    /\ \/ ParseInit /\ JdIdle
       \/ ParseIdle /\ JdInit

SpecExtract == ExtractSpecInit /\ [][ExtractNext]_vars

\* A session: batches are uploaded and the matching tab's button is pressed,
\* in any order.
SessionNext ==
    \/ UploadNext
    \/ TabNext

SessionSpecInit ==
    /\ UploadInit
    /\ Len(up_files) <= MaxSessionFiles
    /\ TabInit
    /\ ScreenIdle /\ SkillIdle /\ ParseIdle /\ MaskIdle /\ JdIdle /\ SemIdle /\ GroqIdle

SpecSession == SessionSpecInit /\ [][SessionNext]_vars

\* ================================================================== claims
\* The call returned from the scoring loop (not from the guard of line 29).
Screened == scr_pc = "returned" /\ ~df.none /\ df.rows # <<>> /\ ~jd_requirements.none

\* Row i (1-based) of df is in the qualified output.
Qualified(i) ==
    \E k \in DOMAIN filtered_df.rows :
        /\ filtered_df.rows[k].idx = i - 1
        /\ filtered_df.rows[k].row = df.rows[i]

ReqMin == Get(jd_requirements.minimum_experience_years, Num(0))

C2_ExperienceSubScore ==
    (scr_pc = "returned" /\ decisions # <<>>) =>
        \A i \in DOMAIN df.rows :
            LET exp == df.rows[i].experience_years
                d == decisions[i]
            IN  exp.t = "num" =>
                    d.exp_score =
                        IF ReqMin.v = 0 THEN 25
                        ELSE IF exp.v >= 10 * ReqMin.v THEN 50
                        ELSE IF exp.v >= 8 * ReqMin.v THEN 35
                        ELSE 0

\* C3: the skills sub-score is 25 when no required skills are listed;
\* otherwise 50 when matched/required >= 0.6, 35 when it is >= 0.3, 20 when
\* it is below 0.3 with at least one skill matched, and 0 when none matched.
C3_SkillsSubScore ==
    decisions # <<>> =>
        \A i \in DOMAIN df.rows :
            LET required == jd_requirements.required_technical_skills
                m == Len(MatchedSkills(required, df.rows[i]))
                n == Len(required)
                d == decisions[i]
            IN  d.skill_score =
                    IF n = 0 THEN 25
                    ELSE IF 10 * m >= 6 * n THEN 50
                    ELSE IF 10 * m >= 3 * n THEN 35
                    ELSE IF m >= 1 THEN 20
                    ELSE 0

\* C3 witness: AWS, Kubernetes, Terraform required, tech stack "AWS, Docker":
\* one of three matched, skills sub-score 35.
C3_Witness ==
    /\ Screened
    /\ jd_requirements.required_technical_skills = <<sk_AWS, sk_Kubernetes, sk_Terraform>>
    /\ \E i \in DOMAIN df.rows :
           /\ df.rows[i].tech_stack = ts_AWS_Docker
           /\ decisions[i].matched = 1
           /\ decisions[i].skill_score = 35

\* C4: a candidate that passes the experience check (is counted in the
\* experience pass count) or the skills check (is counted in the skills pass
\* count) advances, without having to pass the other check.
C4_OrFilter ==
    Screened =>
        \A i \in DOMAIN df.rows :
            (decisions[i].exp_counted \/ decisions[i].skill_counted) => Qualified(i)

\* Separators of a comma-joined tech stack.
IsSep(c) == c = "," \/ c = " "

\* The terms of a tech-stack string: its maximal separator-free substrings.
Terms(s) ==
    { SubSeq(s, a, b) : a \in 1..Len(s), b \in 1..Len(s) } \cap
    { SubSeq(s, a, b) : <<a, b>> \in
        { p \in (1..Len(s)) \X (1..Len(s)) :
            /\ p[1] <= p[2]
            /\ \A k \in p[1]..p[2] : ~IsSep(s[k])
            /\ (p[1] = 1 \/ IsSep(s[p[1] - 1]))
            /\ (p[2] = Len(s) \/ IsSep(s[p[2] + 1])) } }

\* The synonym pairs as the specification lists them.
SynonymPairs ==
    { {lit_scikit_learn, lit_sklearn}, {lit_scikit_learn, lit_scikit},
      {lit_tensorflow, lit_tensor}, {lit_pytorch, lit_torch},
      {lit_numpy, lit_np}, {lit_pandas, lit_pd} }

\* C5: a required skill is matched exactly when its lower-cased name is a
\* substring of the lower-cased tech stack, or the skill and a tech-stack
\* term form one of the synonym pairs, whichever side the JD uses.
C5_MatchedExactlyWhen ==
    mk_pc = "done" =>
        LET skill == Lower(mk_skill)
            stack == Lower(mk_stack)
        IN  mk_result <=>
                \/ Contains(stack, skill)
                \/ \E term \in Terms(stack) : {skill, term} \in SynonymPairs

\* The call ran past the guard of line 123 and its LLM request was answered
\* with a text whose '[' ... ']' slice parsed as a JSON array.
ArrayParsed ==
    match_pc = "returned" /\ candidates_df.rows # <<>> /\ llm_reply.kind = "array"

\* C6: for a non-empty pool and topN >= 1, whenever the LLM reply parses as a
\* JSON array the call returns exactly min(topN, |pool|) results.
C6_ExactlyMinResults ==
    (ArrayParsed /\ top_n >= 1) =>
        Len(match_results) = Min(top_n, Len(candidates_df.rows))

\* A resume text is stored under the name.
Stored(name) == name \in DOMAIN resume_texts

\* C7: for every returned entry, if a resume text is stored under its name:
\* final_score = round(0.7 * match_percentage + 0.3 * semantic_score, 2) with
\* semantic_score the lexical score of that text against the JD; otherwise
\* semantic_score = 0 and final_score is match_percentage unmodified.
C7_FinalScoreBlend ==
    match_pc = "returned" =>
        \A i \in DOMAIN match_results :
            LET e == match_results[i]
                mp == Get(e.match_percentage, Num(0))
                exact == 7 * mp.v + 3 * e.semantic_score   \* tenths of a hundredth
                diff == 10 * e.final_score.v - exact
            IN  IF Stored(e.name)
                THEN /\ e.semantic_score =
                            calculate_semantic_score(resume_texts[e.name], job_description)
                     /\ mp.t = "num" /\ e.final_score.t = "num"
                     /\ -5 <= diff /\ diff <= 5
                ELSE /\ e.semantic_score = 0
                     /\ e.final_score = mp

\* C7 witness: one returned entry blended with a positive lexical score, and
\* one whose name has no stored text and keeps its match_percentage.
C7_Witness ==
    /\ match_pc = "returned"
    /\ \E i, j \in DOMAIN match_results :
           /\ Stored(match_results[i].name)
           /\ match_results[i].semantic_score > 0
           /\ match_results[i].final_score.v # match_results[i].match_percentage.v
           /\ ~Stored(match_results[j].name)
           /\ match_results[j].final_score = Num(9000)

\* C8: the returned list is ordered by non-increasing final_score and the
\* entry at position i has rank i, whatever ranks the LLM supplied.
C8_SortedWithDenseRanks ==
    match_pc = "returned" =>
        /\ \A i \in DOMAIN match_results : match_results[i].rank = i
        /\ \A i \in 1..(Len(match_results) - 1) :
               /\ match_results[i].final_score.t = match_results[i + 1].final_score.t
               /\ ~PyLess(match_results[i].final_score, match_results[i + 1].final_score)

\* C8 witness: the LLM listed the weaker entry first and ranked both 9; the
\* call returned the stronger one first, ranks 1 and 2.
C8_Witness ==
    /\ ArrayParsed
    /\ Len(match_results) = 2
    /\ Len(llm_reply.entries) = 2
    /\ llm_reply.entries[1].rank = 9
    /\ llm_reply.entries[1].name = match_results[2].name
    /\ llm_reply.entries[1].name # llm_reply.entries[2].name
    /\ PyLess(match_results[2].final_score, match_results[1].final_score)
    /\ match_results[1].rank = 1 /\ match_results[2].rank = 2

\* The LLM outcome is one of the failures C9 lists.
FailedReply ==
    \/ llm_reply.kind \in {"transport_error", "no_bracket", "bad_json"}
    \/ /\ llm_reply.kind = "array"
       /\ \E i \in DOMAIN llm_reply.entries :
              \/ ~llm_reply.entries[i].dict
              \/ llm_reply.entries[i].match_percentage.t = "str"

\* C9: for any failed LLM outcome (transport error, reply without a JSON
\* array, malformed JSON, entries of the wrong shape or with non-numeric
\* scores) the call returns an empty list and reports the error.
C9_FailSoft ==
    (match_pc = "returned" /\ FailedReply) =>
        (match_results = <<>> /\ st_errors # <<>>)

\* The call returned a record (the reply held a JSON object).
Parsed == parse_pc = "returned" /\ ~parsed_data.none

\* Two values of a contact field are the same value, None, '' and a missing
\* key all standing for "no value".
SameContact(a, b) == a = b \/ (~Truthy(a) /\ ~Truthy(b))

\* C10: when parse_resume_with_groq runs with PII masking enabled and the
\* reply of the LLM parses, the email and the phone of the returned record
\* are the values pre-extracted locally from the original text, never what
\* the LLM returned.
C10_MaskedUsesLocalValues ==
    (Parsed /\ mask_pii_enabled) =>
        /\ SameContact(parsed_data.email, ExtractEmail(resume_text))
        /\ SameContact(parsed_data.phone, ExtractPhone(resume_text))

\* The local value that lines 131 and 133 fall back to.
LocalOrNone(extracted) == IF Truthy(extracted) THEN extracted ELSE NoneVal

\* C11: when parse_resume_with_groq runs with PII masking disabled, an email
\* or phone returned by the LLM that is non-null, non-empty and not the
\* string 'null' is kept unchanged, and otherwise the record carries the
\* locally pre-extracted value (None when there is none).
C11_UnmaskedFallback ==
    (Parsed /\ ~mask_pii_enabled) =>
        /\ parsed_data.email =
            IF Truthy(parse_reply.email) /\ parse_reply.email.s # lit_null
            THEN parse_reply.email ELSE LocalOrNone(ExtractEmail(resume_text))
        /\ parsed_data.phone =
            IF Truthy(parse_reply.phone) /\ parse_reply.phone.s # lit_null
            THEN parse_reply.phone ELSE LocalOrNone(ExtractPhone(resume_text))

\* An unmasked call kept the LLM's email though another one was extracted
\* locally, and fell back to the local prefix for a phone the LLM left null.
C11_Witness ==
    /\ Parsed /\ ~mask_pii_enabled
    /\ resume_text = rt_both
    /\ parse_reply.email = StrVal(rt_email)
    /\ parsed_data.email = StrVal(rt_email)
    /\ parse_reply.phone = NoneVal
    /\ parsed_data.phone = StrVal(<<"1">>)

\* C11 as worded: every non-null, non-empty value of the LLM is kept.
C11_NonEmptyKept ==
    (Parsed /\ ~mask_pii_enabled) =>
        /\ Truthy(parse_reply.email) => parsed_data.email = parse_reply.email
        /\ Truthy(parse_reply.phone) => parsed_data.phone = parse_reply.phone

\* The text line 37 prepares for the LLM.
ProcessedText == IF mask_pii_enabled THEN mask_pii(resume_text) ELSE resume_text

\* C12: the request parse_resume_with_groq sends to the LLM contains the
\* resume text, redacted by mask_pii when masking is enabled and raw when it
\* is disabled.
C12_RequestCarriesText ==
    parse_pc = "returned" =>
        /\ parse_requests # <<>>
        /\ \A k \in DOMAIN parse_requests : Contains(parse_requests[k], ProcessedText)

\* The candidate fields a summary block may carry according to C13.
SummaryFields == {"name", "experience_years", "tech_stack", "current_role", "key_projects"}

\* C13: every per-candidate summary block that match_candidates_with_jd sends
\* to the LLM carries only the name, experience, tech stack, role and
\* projects of the candidate, and never the email of a candidate.
C13_SummaryWithoutContact ==
    \A k \in DOMAIN llm_requests :
        \A i \in DOMAIN llm_requests[k].candidates_summary :
            LET block == llm_requests[k].candidates_summary[i]
            IN  /\ DOMAIN block \subseteq SummaryFields
                /\ \A f \in DOMAIN block :
                    \A j \in DOMAIN candidates_df.rows :
                        block[f] # candidates_df.rows[j].email

\* C14: the request extract_jd_requirements sends to the LLM carries the
\* job-description text it was called with.
C14_RequestCarriesJd ==
    jd_pc = "returned" =>
        /\ jd_requests # <<>>
        /\ \A k \in DOMAIN jd_requests : Contains(jd_requests[k], jd_text)

\* The reply held one JSON object between two pieces of prose.
ObjectInProse == jd_pc = "returned" /\ ~jd_reply.raises /\ jd_reply.object # <<>>

\* C15: for a reply made of prose without '{', one valid JSON object, and
\* prose without '}', the extraction from the first '{' to the last '}'
\* recovers exactly the embedded object.
C15_RoundTrip ==
    (/\ ObjectInProse
     /\ Find(jd_reply.before, "{") = -1
     /\ Find(jd_reply.after, "}") = -1) =>
        /\ jd_result = JsonLoads(jd_reply.object).value
        /\ jd_result.t = "obj"
        /\ jd_errors = <<>>

\* The nested object was recovered from between 'Sure: ' and ' ok'.
C15_Witness ==
    /\ ObjectInProse
    /\ jd_reply.before = pr_sure /\ jd_reply.object = js_nested /\ jd_reply.after = pr_ok
    /\ jd_result.t = "obj" /\ Len(jd_result.m) = 2
    /\ jd_result.m[1].v.t = "obj"

\* C15 as worded: the embedded object is recovered whatever the prose is.
C15_RoundTripAnyProse ==
    ObjectInProse => jd_result = JsonLoads(jd_reply.object).value

\* The LLM call of extract_jd_requirements failed: it raised, or its reply
\* holds no '{...}' pair, or one that json.loads rejects.
JdFailed ==
    \/ jd_reply.raises
    \/ ~ExtractJson(ResponseText(jd_reply)).found
    \/ ExtractJson(ResponseText(jd_reply)).raised

\* C16: parse_resume_with_groq and extract_jd_requirements never raise, and
\* return None when the LLM call errors or the reply holds no '{...}' pair or
\* an unparsable one.
C16_ExtractorsFailSoft ==
    /\ parse_pc # "raised" /\ jd_pc # "raised"
    /\ (parse_pc = "returned" /\ parse_reply.kind # "object") => parsed_data = NoRecord
    /\ (jd_pc = "returned" /\ JdFailed) => jd_result = JsonNone

\* extract_jd_requirements returned None for a reply whose braces hold no
\* valid JSON.
C16_Witness ==
    /\ jd_pc = "returned"
    /\ ~jd_reply.raises
    /\ ExtractJson(ResponseText(jd_reply)).raised
    /\ jd_result = JsonNone
    /\ jd_errors # <<>>

\* C17: mask_pii is idempotent: masking the result of mask_pii again returns
\* that result unchanged.
C17_MaskIdempotent ==
    /\ mask_pc = "remasked" => mask_result = mask_first
    /\ mask_pc \in {"masked", "remasked"} => mask_pii(mask_first) = mask_first

\* A run of fifteen digits, of which mask_pii replaced the first fourteen,
\* was masked a second time.
C17_Witness ==
    /\ mask_pc = "remasked"
    /\ mask_text = <<"5", "6", "7", "8", "9", "5", "6", "7", "8", "9", "5", "6", "7", "8", "9">>
    /\ mask_first = lit_PHONE_MASKED \o <<"9">>
    /\ mask_result = mask_first

\* s holds a phone-like run: 8 to 13 digits, from a digit to a digit, with
\* nothing but digits, spaces and dashes between them.
HasPhoneLikeRun(s) ==
    \E i \in 1..Len(s) : \E j \in i..Len(s) :
        /\ s[i] \in Digits /\ s[j] \in Digits
        /\ AllIn(s, i, j, Digits \cup {" ", "-"})
        /\ Cardinality({k \in i..j : s[k] \in Digits}) \in 8..13

\* s holds an email-like substring: an '@' between two non-blank characters.
HasEmailLike(s) ==
    \E p \in 2..(Len(s) - 1) : s[p] = "@" /\ s[p - 1] # " " /\ s[p + 1] # " "

\* C18: mask_pii replaces every email-like substring and every phone-like
\* run of 8 to 13 digits by its placeholder, so none is left in the result,
\* and returns a text without such a match unchanged.
C18_MaskReplacesAll ==
    mask_pc = "masked" =>
        /\ ~HasEmailLike(mask_first)
        /\ ~HasPhoneLikeRun(mask_first)
        /\ (~HasEmailLike(mask_text) /\ ~HasPhoneLikeRun(mask_text)) => mask_first = mask_text

\* C19: calculate_semantic_score never raises: for every pair of texts,
\* empty ones and ones without any token included, it returns a number in
\* [0, 100], and it returns 0 when the two texts hold no token at all, which
\* makes the vectoriser fail.
C19_ScoreTotalAndBounded ==
    /\ sem_pc \in {"idle", "ready", "returned"}
    /\ sem_pc = "returned" =>
        /\ sem_score \in 0..10000
        /\ (Tokenize(sem_resume) = <<>> \/ Tokenize(sem_jd) = <<>>) => sem_score = 0

\* The score of an empty resume against a text without tokens is 0.
C19_Witness ==
    /\ sem_pc = "returned"
    /\ sem_resume = <<>>
    /\ sem_jd = <<"c", " ", "+", "+">>
    /\ sem_score = 0

RECURSIVE ParsedInOrder(_, _)
\* The records of the files from position i on whose text was extracted and
\* parsed, in upload order.
ParsedInOrder(files, i) ==
    IF i > Len(files) THEN <<>>
    ELSE IF files[i].text = <<>> \/ files[i].parsed = "none"
         THEN ParsedInOrder(files, i + 1)
         ELSE <<ParsedRecord(files, i)>> \o ParsedInOrder(files, i + 1)

\* C20: in a batch parse no per-item failure aborts the batch: the run ends
\* normally, every file of the batch was processed, and the parsed records
\* are the successfully parsed files in upload order.
C20_BatchNeverAborts ==
    up_pc \in {"done", "raised"} =>
        /\ up_pc = "done"
        /\ up_status = [i \in 1..Len(up_files) |-> i]
        /\ parsed_resumes = ParsedInOrder(up_files, 1)

\* C21: after an upload batch has run, candidates_df consists of exactly the
\* records parsed in that batch, and of none when the batch parsed no
\* resume: no record of an earlier batch survives.
C21_CollectionReplaced ==
    up_pc = "done" =>
        /\ candidates_df.rows = ParsedInOrder(up_files, 1)
        /\ \A k \in DOMAIN candidates_df.rows : candidates_df.rows[k] # EarlierRecord

\* C22: for each LLM call issued through create_groq_completion, the primary
\* client is asked first; an authentication or rate-limit failure of it
\* triggers one attempt, and no more, against the fallback client when one
\* is configured; the call fails when that attempt fails too, or when the
\* primary client failed and no fallback attempt was made.
C22_OneFallbackRetry ==
    \A k \in DOMAIN gq_calls :
        LET call == gq_calls[k]
            retried == \E a \in DOMAIN call.attempts : call.attempts[a] = "fallback"
        IN  /\ call.attempts[1] = "primary"
            /\ Cardinality({a \in DOMAIN call.attempts : call.attempts[a] = "fallback"}) <= 1
            /\ retried <=> (call.primary \in TransportFailures /\ fallback_client)
            /\ call.result = "raised" <=>
                /\ call.primary # "ok"
                /\ ~retried \/ call.fallback # "ok"

\* A rate-limited call was answered by the fallback client, and another one
\* failed on both clients.
C22_Witness ==
    /\ fallback_client
    /\ Len(gq_calls) = 2
    /\ gq_calls[1].primary = "rate_limit" /\ gq_calls[1].attempts = <<"primary", "fallback">>
    /\ gq_calls[1].result = "ok"
    /\ gq_calls[2].primary = "auth_error" /\ gq_calls[2].fallback = "rate_limit"
    /\ gq_calls[2].result = "raised"

\* The call went past the guard of line 29 with a requirements record that
\* leaves out minimum_experience_years or sets it to null.
MinimumUnspecified ==
    /\ scr_pc \in {"returned", "raised"}
    /\ ~df.none /\ df.rows # <<>> /\ ~jd_requirements.none
    /\ jd_requirements.minimum_experience_years.t \in {"absent", "none"}

\* C23: when minimum_experience_years is absent or null, pre-screening takes
\* the minimum to be 0: the call completes without raising and every
\* candidate gets the flat 25 experience points.
C23_UnspecifiedMinimumIsZero ==
    MinimumUnspecified =>
        /\ scr_pc = "returned"
        /\ \A i \in DOMAIN decisions : decisions[i].exp_score = 25

\* C24: auto_pre_screen_candidates called with jd_requirements None, or with
\* a table that is None or empty, returns the table it was given together
\* with an empty summary, and computes no score.
C24_GuardReturnsInput ==
    (scr_pc = "returned" /\ (df.none \/ df.rows = <<>> \/ jd_requirements.none)) =>
        /\ filtered_df = df
        /\ screening_summary = <<>>
        /\ decisions = <<>>

\* A table of two rows came back whole from a call without requirements.
C24_Witness ==
    /\ scr_pc = "returned"
    /\ jd_requirements.none
    /\ ~df.none /\ Len(df.rows) = 2
    /\ filtered_df = df

\* C25: the qualified output is an order-preserving subsequence of the input
\* table: every output row is the input row under its index label, the
\* labels increase along the output, and the call leaves the input as it was.
C25_OrderPreservingSubsequence ==
    /\ [](Screened =>
            /\ \A k \in DOMAIN filtered_df.rows :
                /\ filtered_df.rows[k].idx + 1 \in DOMAIN df.rows
                /\ filtered_df.rows[k].row = df.rows[filtered_df.rows[k].idx + 1]
            /\ \A k \in DOMAIN filtered_df.rows : \A l \in DOMAIN filtered_df.rows :
                k < l => filtered_df.rows[k].idx < filtered_df.rows[l].idx)
    /\ [][df' = df]_vars

\* Both rows of a table qualified and came out in table order.
C25_Witness ==
    /\ Screened
    /\ Len(df.rows) = 2 /\ df.rows[1] # df.rows[2]
    /\ Len(filtered_df.rows) = 2
    /\ filtered_df.rows[1].row = df.rows[1]
    /\ filtered_df.rows[2].row = df.rows[2]

\* The required skills row i matches.
MatchedSet(i) ==
    LET m == MatchedSkills(jd_requirements.required_technical_skills, df.rows[i])
    IN  {m[k] : k \in DOMAIN m}

\* Row j has at least the experience of row i and matches at least the
\* required skills row i matches.
AtLeast(i, j) ==
    /\ df.rows[i].experience_years.t = "num"
    /\ df.rows[j].experience_years.t = "num"
    /\ df.rows[i].experience_years.v <= df.rows[j].experience_years.v
    /\ MatchedSet(i) \subseteq MatchedSet(j)

\* C26: for fixed requirements the total score is monotone non-decreasing
\* in experience_years and in the set of matched required skills: a
\* candidate with at least the experience and the matched skills of a
\* qualifying one qualifies too.
C26_ScoreMonotone ==
    decisions # <<>> =>
        \A i \in DOMAIN df.rows : \A j \in DOMAIN df.rows :
            AtLeast(i, j) =>
                /\ decisions[i].candidate_score <= decisions[j].candidate_score
                /\ decisions[i].passed => decisions[j].passed

\* Of two candidates the one with more experience and more matched skills
\* scored strictly higher, and only that one qualified.
C26_Witness ==
    /\ Screened /\ Len(df.rows) = 2
    /\ AtLeast(1, 2)
    /\ df.rows[1].experience_years.v < df.rows[2].experience_years.v
    /\ MatchedSet(1) # MatchedSet(2)
    /\ decisions[1].candidate_score < decisions[2].candidate_score
    /\ ~decisions[1].passed /\ decisions[2].passed

\* C27: for any LLM reply, one with more entries than requested included,
\* match_candidates_with_jd returns at most min(topN, |pool|) entries, and
\* for an empty pool it returns an empty list without issuing an LLM call.
C27_AtMostTopN ==
    match_pc = "returned" =>
        /\ Len(match_results) <= top_n
        /\ Len(match_results) <= Len(candidates_df.rows)
        /\ candidates_df.rows = <<>> => (match_results = <<>> /\ llm_requests = <<>>)

\* The LLM returned two entries for a pool of one; one entry came back.
C27_Witness ==
    /\ match_pc = "returned"
    /\ Len(candidates_df.rows) = 1
    /\ llm_reply.kind = "array" /\ Len(llm_reply.entries) = 2
    /\ Len(match_results) = 1

\* The position of the last parsed record named n.
LastWithName(recs, n) ==
    CHOOSE k \in DOMAIN recs :
        /\ recs[k].name = n
        /\ \A l \in DOMAIN recs : l > k => recs[l].name # n

\* C28: after an upload batch completes, resume_texts has exactly one entry
\* per distinct name among the batch's parsed records, the entry of a name
\* is the text of the last parsed resume with that name, and every parsed
\* record, same-named ones included, is in the candidate collection.
C28_LastTextPerName ==
    up_pc = "done" =>
        LET names == {parsed_resumes[k].name : k \in DOMAIN parsed_resumes}
        IN  /\ DOMAIN resume_texts = names
            /\ \A n \in names :
                 resume_texts[n] =
                     up_files[parsed_resumes[LastWithName(parsed_resumes, n)].filename].text
            /\ parsed_resumes = ParsedInOrder(up_files, 1)
            /\ parsed_resumes # <<>> => candidates_df.rows = parsed_resumes

\* Two resumes of one batch were both parsed as alice: two records, and the
\* text of the second under the name.
C28_Witness ==
    /\ up_pc = "done"
    /\ Len(up_files) = 2
    /\ up_files[1].parsed = "alice" /\ up_files[2].parsed = "alice"
    /\ up_files[1].text = tx_python_aws /\ up_files[2].text = tx_java_sql
    /\ Len(candidates_df.rows) = 2
    /\ DOMAIN resume_texts = {"alice"}
    /\ resume_texts["alice"] = tx_java_sql

\* The ranking came out of the sort of a parsed array.
Ranked ==
    /\ match_pc = "returned"
    /\ llm_reply.kind = "array"
    /\ match_results # <<>>

\* The bijections between the positions of a ranking of n entries and the
\* first n positions of the reply.
Arrangements(n) == {f \in [1..n -> 1..n] : \A i, j \in 1..n : f[i] = f[j] => i = j}

\* C30: entries of a ranking with exactly equal final_score are in the
\* relative order in which the LLM returned them: the ranking is an
\* arrangement of the reply's entries that is descending in final_score and
\* keeps reply order among equal scores.
C30_TiesKeepReplyOrder ==
    Ranked =>
        \E f \in Arrangements(Len(match_results)) :
            /\ \A i \in DOMAIN match_results :
                 /\ match_results[i].name = llm_reply.entries[f[i]].name
                 /\ match_results[i].match_percentage = llm_reply.entries[f[i]].match_percentage
            /\ \A i, j \in DOMAIN match_results :
                 (i < j /\ match_results[i].final_score = match_results[j].final_score)
                     => f[i] < f[j]

\* bob and alice were returned in that order with the same final score and
\* are ranked in that order.
C30_Witness ==
    /\ Ranked
    /\ Len(match_results) = 2
    /\ llm_reply.entries[1].name = "bob" /\ llm_reply.entries[2].name = "alice"
    /\ match_results[1].final_score = match_results[2].final_score
    /\ match_results[1].name = "bob" /\ match_results[2].name = "alice"
    /\ match_results[1].rank = 1 /\ match_results[2].rank = 2

\* A press of the matching button, and a run of an upload batch.
MatchingRun == tab_runs' # tab_runs
UploadRun == up_pc' # up_pc

\* C29: a matching run that produces no ranked result (no candidate passes
\* pre-screening, or match_candidates_with_jd returns an empty list) leaves
\* the stored matched_results unchanged, an upload batch never clears them,
\* and they change only by being replaced with the non-empty ranking of a
\* matching run.
C29_ResultsKeptUnlessRanked ==
    [][/\ (MatchingRun /\ tab_results' = <<>>) => matched_results' = matched_results
       /\ UploadRun => matched_results' = matched_results
       /\ matched_results' # matched_results =>
            /\ MatchingRun
            /\ tab_results' # <<>>
            /\ matched_results' = Ranking(tab_results')]_vars

\* A batch was uploaded over a stored ranking and a press ended with an
\* empty list from the matcher; the earlier ranking is still stored.
C29_Witness ==
    /\ up_pc = "done"
    /\ tab_runs = 1
    /\ tab_pc = "no_ranking"
    /\ tab_results = <<>>
    /\ matched_results = EarlierRanking

====
